---- MODULE Spec2Model ----
(***************************************************************************)
(* State-machine model of the AniGhar server's authentication and session  *)
(* subsystem: routes/auth.js (register, login, logout, refresh-token),     *)
(* middleware/authMiddleware.js (protect, admin), models/User.js (schema,  *)
(* pre-save hook, token methods), routes/users.js (profile and admin user  *)
(* updates) and server.js (startup, default admin).                        *)
(*                                                                         *)
(* Every request is handled by a process p.  A handler is cut into steps   *)
(* at its awaited store operations: each step runs the synchronous code    *)
(* leading to one store operation and that operation; the last step also   *)
(* sends the response.  Steps of different processes interleave freely.    *)
(***************************************************************************)
EXTENDS Integers, Sequences, FiniteSets, TLC

VARIABLES
    env,        \* process.env: the token secrets
    users,      \* the users collection: _id -> stored document
    nextId,     \* next ObjectId to hand out
    now,        \* wall clock, in seconds
    ticks,      \* number of clock advances so far
    pc,         \* per process: the await it is suspended at, or "idle"
    req,        \* per process: the request being (or last) handled
    loc,        \* per process: the handler's local variables
    resp,       \* per process: the last response sent
    jar,        \* the browser client's cookie jar
    issued,     \* history: every token handed out so far
    superseded, \* history: refresh tokens followed by a later issue for the same user
    products,   \* the products collection, in order of creation
    orders      \* the orders collection

vars == <<env, users, nextId, now, ticks, pc, req, loc, resp, jar, issued, superseded,
          products, orders>>

-----------------------------------------------------------------------------
(* Bounds of the model                                                     *)

\* processes handling requests concurrently
Procs == {"p1", "p2"}

\* documents ever inserted into the users collection
MaxUsers == 4

\* clock advances in one behaviour
MaxTicks == 1

\* documents ever inserted into the products collection
MaxProducts == 2

-----------------------------------------------------------------------------
(* Strings                                                                 *)

\* A string whose characters matter (an email) is a sequence of characters.
LowerChar(c) ==
    CASE c = "A" -> "a"
      [] c = "B" -> "b"
      [] c = "C" -> "c"
      [] c = "R" -> "r"
      [] OTHER -> c

\* String.prototype.toLowerCase, the schema's `lowercase: true` setter
ToLowerCase(s) == [i \in DOMAIN s |-> LowerChar(s[i])]

RECURSIVE TrimLeft(_)
TrimLeft(s) ==
    IF s # <<>> /\ Head(s) = " " THEN TrimLeft(Tail(s)) ELSE s

RECURSIVE TrimRight(_)
TrimRight(s) ==
    IF s # <<>> /\ s[Len(s)] = " " THEN TrimRight(SubSeq(s, 1, Len(s) - 1)) ELSE s

\* String.prototype.trim, the `trim: true` setter and the validator's trim()
Trim(s) == TrimLeft(TrimRight(s))

\* the setters of the schema's email path, in the order mongoose applies them
EmailSetter(e) == ToLowerCase(Trim(e))

\* isEmail(): a non-empty local part, an "@", a domain with a dot, no blanks
IsEmail(e) ==
    /\ \A i \in DOMAIN e : e[i] # " "
    /\ \E i \in 2..(Len(e) - 3) :
          /\ e[i] = "@"
          /\ \A j \in DOMAIN e : j # i => e[j] # "@"
          /\ \E k \in (i + 2)..(Len(e) - 1) : e[k] = "."

Mail(local) == <<local, "@", "x", ".", "c">>

AdminEmail ==
    <<"a","d","m","i","n","@","e","x","a","m","p","l","e",".","c","o","m">>

-----------------------------------------------------------------------------
(* Password hasher                                                         *)

\* A password value is the plaintext with the number of bcrypt layers on it.
Plain(s) == [plain |-> s, layers |-> 0]

\* bcrypt.hash(value, salt)
BcryptHash(v) == [v EXCEPT !.layers = @ + 1]

\* bcrypt.compare(candidate, stored)
BcryptCompare(candidate, stored) == stored = BcryptHash(candidate)

\* userSchema.methods.comparePassword
comparePassword(doc, candidate) == BcryptCompare(candidate, doc.password)

-----------------------------------------------------------------------------
(* Token issuer                                                            *)

AccessTTL == 15 * 60
RefreshTTL == 7 * 24 * 60 * 60

\* A token is its payload and the key that signed it.
NoToken == [id |-> 0, role |-> "", iat |-> 0, exp |-> 0, key |-> "absent"]
Garbage == [id |-> 0, role |-> "", iat |-> 0, exp |-> 0, key |-> "garbage"]

\* jwt.sign(payload, secret, {expiresIn}) at clock t
JwtSign(id, role, secret, ttl, t) ==
    [id |-> id, role |-> role, iat |-> t, exp |-> t + ttl, key |-> secret]

\* a faulty variant: the expiry looked at before the signature
JwtVerify_ExpiryFirst(token, secret, t) ==
    IF token.key = "garbage" \/ secret = "" THEN "JsonWebTokenError"
    ELSE IF t >= token.exp THEN "TokenExpiredError"
    ELSE IF token.key # secret THEN "JsonWebTokenError"
    ELSE "ok"

\* jwt.verify(token, secret) at clock t: "ok", or the error thrown
JwtVerify(token, secret, t) ==
    IF token.key = "garbage" \/ secret = "" THEN "JsonWebTokenError"
    ELSE IF token.key # secret THEN "JsonWebTokenError"
    ELSE IF t >= token.exp THEN "TokenExpiredError"
    ELSE "ok"

\* userSchema.methods.generateAuthTokens, for document id with role, at clock t
SecretsConfigured(e) == e.JWT_SECRET # "" /\ e.REFRESH_TOKEN_SECRET # ""

generateAuthTokens_Access(e, id, role, t) ==
    JwtSign(id, role, e.JWT_SECRET, AccessTTL, t)

generateAuthTokens_Refresh(e, id, t) ==
    JwtSign(id, "", e.REFRESH_TOKEN_SECRET, RefreshTTL, t)

\* userSchema.methods.generateVerificationToken, generatePasswordResetToken
VerificationTTL == 24 * 60 * 60
PasswordResetTTL == 60 * 60

generateVerificationToken(e, id, t) ==
    JwtSign(id, "", e.JWT_SECRET, VerificationTTL, t)

generatePasswordResetToken(e, id, t) ==
    JwtSign(id, "", e.JWT_SECRET, PasswordResetTTL, t)

-----------------------------------------------------------------------------
(* Credential store                                                        *)

NoDate == -1

\* new User({name, email, password, ...}) with the schema's defaults and setters
NewUser(name, email, password, role) ==
    [ name |-> name, email |-> EmailSetter(email), password |-> password,
      isEmailVerified |-> FALSE, isActive |-> TRUE, lastLogin |-> NoDate,
      role |-> role, refreshToken |-> NoToken ]

Ids(store) == DOMAIN store

\* a faulty variant: the query value compared as sent, without the setters
FindByEmail_Raw(store, email) ==
    {i \in Ids(store) : store[i].email = email}

\* User.findOne({ email }): the query value goes through the path's setters
FindByEmail(store, email) ==
    {i \in Ids(store) : store[i].email = EmailSetter(email)}

\* a faulty variant: a collection without the index
UniqueIndexRejects_Off(store, id, email) == FALSE

\* the unique index on email: would storing `email` on document id collide
UniqueIndexRejects(store, id, email) ==
    \E i \in Ids(store) : i # id /\ store[i].email = email

\* schema validation of a document before it is written
SchemaValid(doc) ==
    /\ Len(doc.name) >= 2
    /\ IsEmail(doc.email)
    /\ doc.password.layers > 0 \/ Len(doc.password.plain) >= 8
    /\ doc.role \in {"user", "admin"}

-----------------------------------------------------------------------------
(* Documents in memory                                                     *)

NoDoc == [absent |-> TRUE]

\* a query's projection: the document with only the selected paths loaded
Select(doc, hidden) == [f \in (DOMAIN doc) \ hidden |-> doc[f]]

\* assigning paths of an in-memory document
Assign(doc, changes) ==
    [f \in (DOMAIN doc) \cup (DOMAIN changes) |->
        IF f \in DOMAIN changes THEN changes[f] ELSE doc[f]]

\* `delete obj.path`
Delete(obj, paths) == [f \in (DOMAIN obj) \ paths |-> obj[f]]

\* the paths document.save() writes: those whose value differs from what was loaded
ModifiedPaths(doc, snap) ==
    {f \in DOMAIN doc : f \notin DOMAIN snap \/ doc[f] # snap[f]}

\* userSchema.pre('save'): hash the password when it was modified
PreSave(doc, snap) ==
    IF "password" \in ModifiedPaths(doc, snap)
    THEN Assign(doc, [password |-> BcryptHash(doc.password)])
    ELSE doc

\* what save() of an existing document does: "ok" or the error it throws
SaveOutcome(store, id, doc, snap) ==
    LET m == ModifiedPaths(doc, snap)
        stored == Assign(store[id], [f \in m |-> doc[f]])
    IN  IF id \notin Ids(store) THEN "DocumentNotFoundError"
        ELSE IF m # {} /\ ~SchemaValid(stored) THEN "ValidationError"
        ELSE IF "email" \in m /\ UniqueIndexRejects(store, id, doc.email) THEN "E11000"
        ELSE "ok"

\* the collection after a successful save() of an existing document
SaveExisting(store, id, doc, snap) ==
    LET d == PreSave(doc, snap)
        m == ModifiedPaths(d, snap)
    IN  [store EXCEPT ![id] = Assign(@, [f \in m |-> d[f]])]

\* what save() of a new document does
InsertOutcome(store, doc) ==
    IF ~SchemaValid(doc) THEN "ValidationError"
    ELSE IF UniqueIndexRejects(store, 0, doc.email) THEN "E11000"
    ELSE "ok"

\* the collection after a successful save() of a new document under id
Insert(store, id, doc) ==
    [i \in Ids(store) \cup {id} |->
        IF i = id THEN PreSave(doc, NoDoc) ELSE store[i]]

-----------------------------------------------------------------------------
(* Cookies                                                                 *)

\* a path is its sequence of segments; "/" is the empty sequence
RootPath == <<>>
RefreshPath == <<"api", "auth", "refresh-token">>
PathOf(op) ==
    CASE op = "register" -> <<"api", "auth", "register">>
      [] op = "login" -> <<"api", "auth", "login">>
      [] op = "logout" -> <<"api", "auth", "logout">>
      [] op = "refresh" -> RefreshPath
      [] op = "putProfile" -> <<"api", "users", "profile">>
      [] op = "putUser" -> <<"api", "users", "id">>
      [] op = "getProfile" -> <<"api", "users", "profile">>
      [] op = "getUsers" -> <<"api", "users">>
      [] op = "getUser" -> <<"api", "users", "id">>
      [] op = "deleteUser" -> <<"api", "users", "id">>
      [] op = "postProduct" -> <<"api", "products">>
      [] op = "putProduct" -> <<"api", "products", "id">>
      [] op = "deleteProduct" -> <<"api", "products", "id">>
      [] op = "deliverOrder" -> <<"api", "orders", "id", "deliver">>
      [] op = "deleteOrder" -> <<"api", "orders", "id">>

\* the browser's path-match: the cookie's path is a prefix of the request's
PathCovers(cookiePath, reqPath) ==
    /\ Len(cookiePath) <= Len(reqPath)
    /\ SubSeq(reqPath, 1, Len(cookiePath)) = cookiePath

\* getCookieOptions(isRefreshToken): path and maxAge in seconds
getCookieOptions(isRefreshToken) ==
    [ path |-> IF isRefreshToken THEN RefreshPath ELSE RootPath,
      maxAge |-> IF isRefreshToken THEN RefreshTTL ELSE AccessTTL ]

CookieNames == {"accessToken", "refreshToken", "token"}

\* res.cookie(name, value, options) and res.clearCookie(name, options)
SetCookie(name, value, opts) ==
    [name |-> name, value |-> value, path |-> opts.path, maxAge |-> opts.maxAge]
ClearCookie(name, path) ==
    [name |-> name, value |-> NoToken, path |-> path, maxAge |-> 0]

\* a faulty variant: the access token put into both cookies
setTokenCookies_Swapped(accessToken, refreshToken) ==
    { SetCookie("accessToken", accessToken, getCookieOptions(FALSE)),
      SetCookie("refreshToken", accessToken, getCookieOptions(TRUE)),
      ClearCookie("token", RootPath) }

\* setTokenCookies(res, {accessToken, refreshToken})
setTokenCookies(accessToken, refreshToken) ==
    { SetCookie("accessToken", accessToken, getCookieOptions(FALSE)),
      SetCookie("refreshToken", refreshToken, getCookieOptions(TRUE)),
      ClearCookie("token", RootPath) }

\* the three clearCookie calls of logout and of refresh-token's catch
ClearSessionCookies ==
    { ClearCookie("accessToken", RootPath),
      ClearCookie("refreshToken", RefreshPath),
      ClearCookie("token", RootPath) }

\* a stored cookie of the browser
NoCookie == [value |-> NoToken, path |-> RootPath, expires |-> 0]
EmptyJar == [n \in CookieNames |-> NoCookie]

\* the browser stores every Set-Cookie of a response, at clock t
StoreCookies(j, setCookie, t) ==
    [n \in CookieNames |->
        IF \E c \in setCookie : c.name = n
        THEN LET c == CHOOSE c \in setCookie : c.name = n
             IN  IF c.maxAge = 0
                 THEN (IF j[n].path = c.path THEN NoCookie ELSE j[n])
                 ELSE [value |-> c.value, path |-> c.path, expires |-> t + c.maxAge]
        ELSE j[n]]

\* req.cookies of a browser request to reqPath at clock t
NoCookies == [n \in CookieNames |-> NoToken]
BrowserCookies(j, reqPath, t) ==
    [n \in CookieNames |->
        IF j[n].value # NoToken /\ PathCovers(j[n].path, reqPath) /\ t < j[n].expires
        THEN j[n].value ELSE NoToken]

-----------------------------------------------------------------------------
(* Requests and responses                                                  *)

NoBody == [name |-> "", email |-> <<>>, password |-> Plain(""),
           role |-> "", isActive |-> "unset"]

Request(op, mode, body, id, cookies) ==
    [op |-> op, mode |-> mode, body |-> body, id |-> id, cookies |-> cookies]

NoRequest == Request("none", "raw", NoBody, 0, NoCookies)

\* a JSON response: status, body fields, Set-Cookie headers; `branch` records
\* which return statement produced it
Response(branch, status, message, user, accessToken, flags, setCookie) ==
    [ branch |-> branch, status |-> status, message |-> message, user |-> user,
      accessToken |-> accessToken, shouldRefresh |-> flags[1],
      shouldLogout |-> flags[2], setCookie |-> setCookie ]

NoFlags == <<"unset", "unset">>
NoResponse == Response("none", 0, "", NoDoc, NoToken, NoFlags, {})

\* what the client receives: the response without the model's branch label
Wire(r) == Delete(r, {"branch"})

NoLoc == [uid |-> 0, doc |-> NoDoc, user |-> NoDoc]

-----------------------------------------------------------------------------
(* Steps shared by all handlers                                            *)

\* handler of request rq sends response r: the browser stores its cookies
Send(p, rq, r) ==
    /\ req' = [req EXCEPT ![p] = rq]
    /\ pc' = [pc EXCEPT ![p] = "idle"]
    /\ loc' = [loc EXCEPT ![p] = NoLoc]
    /\ resp' = [resp EXCEPT ![p] = r]
    /\ jar' = IF rq.mode = "browser" THEN StoreCookies(jar, r.setCookie, now) ELSE jar

\* handler of request rq suspends at the await `label` with locals l
Suspend(p, rq, label, l) ==
    /\ req' = [req EXCEPT ![p] = rq]
    /\ pc' = [pc EXCEPT ![p] = label]
    /\ loc' = [loc EXCEPT ![p] = l]
    /\ resp' = [resp EXCEPT ![p] = NoResponse]
    /\ jar' = jar

\* the handlers of the auth and users routes touch neither products nor orders
CatalogUnchanged == UNCHANGED <<products, orders>>

Finish(p, rq, r) == Send(p, rq, r) /\ CatalogUnchanged

Await(p, rq, label, l) == Suspend(p, rq, label, l) /\ CatalogUnchanged

\* history: a token pair is handed out for user id
Issue(id, accessToken, refreshToken) ==
    /\ superseded' = superseded \cup {t \in issued.refresh : t.id = id}
    /\ issued' = [ issued EXCEPT !.access = @ \cup {accessToken},
                                 !.refresh = @ \cup {refreshToken} ]

\* history: Register also makes a verification token, which it logs
IssueVerification(verificationToken) ==
    /\ issued' = [issued EXCEPT !.verification = @ \cup {verificationToken}]
    /\ UNCHANGED superseded

IssueRegistered(id, verificationToken, accessToken, refreshToken) ==
    /\ superseded' = superseded \cup {t \in issued.refresh : t.id = id}
    /\ issued' = [ access |-> issued.access \cup {accessToken},
                   refresh |-> issued.refresh \cup {refreshToken},
                   verification |-> issued.verification \cup {verificationToken} ]

NoIssue == UNCHANGED <<issued, superseded>>
StoreUnchanged == UNCHANGED <<users, nextId>>
ClockUnchanged == UNCHANGED <<env, now, ticks>>

\* the cookies a request carries: the browser's for its path, or any the sender has
CookiesOf(mode, op, raw) ==
    IF mode = "browser" THEN BrowserCookies(jar, PathOf(op), now) ELSE raw

\* a faulty variant: the object is sent as loaded
UserResponse_Whole(doc, deleted) == doc

\* user.toObject() with the given paths deleted
UserResponse(doc, deleted) == Delete(doc, deleted)

ValidationFailed ==
    Response("validation", 400, "errors", NoDoc, NoToken, NoFlags, {})

-----------------------------------------------------------------------------
(* POST /api/auth/register                                                 *)

RegisterValid(b) ==
    /\ Len(b.name) > 0
    /\ IsEmail(b.email)
    /\ Len(b.password.plain) >= 8

RegisterDuplicate ==
    Response("duplicate", 400, "Email is already registered", NoDoc, NoToken, NoFlags, {})

RegisterServerError(why) ==
    Response(why, 500, "Server error during registration", NoDoc, NoToken, NoFlags, {})

RegisterCreated(doc, accessToken, refreshToken) ==
    Response("created", 201,
             "Registration successful. Please check your email to verify your account.",
             UserResponse(doc, {"password", "refreshToken"}), accessToken, NoFlags,
             setTokenCookies(accessToken, refreshToken))

\* validators, then User.findOne({ email })
RegisterArrive(p, mode, name, email, password) ==
    LET b  == [NoBody EXCEPT !.name = name, !.email = Trim(email), !.password = password]
        rq == Request("register", mode, b, 0, CookiesOf(mode, "register", NoCookies))
    IN  /\ pc[p] = "idle"
        /\ IF ~RegisterValid(b) THEN Finish(p, rq, ValidationFailed)
           ELSE IF FindByEmail(users, b.email) # {} THEN Finish(p, rq, RegisterDuplicate)
           ELSE /\ nextId <= MaxUsers
                /\ Await(p, rq, "register_save1", NoLoc)
        /\ StoreUnchanged /\ NoIssue /\ ClockUnchanged

\* new User({...}); await user.save()
RegisterSave1(p) ==
    LET b   == req[p].body
        doc == NewUser(b.name, b.email, b.password, "user")
        out == InsertOutcome(users, doc)
    IN  /\ pc[p] = "register_save1"
        /\ out = "ok" => nextId <= MaxUsers
        /\ IF out # "ok"
           THEN /\ Finish(p, req[p], RegisterServerError(out))
                /\ StoreUnchanged
           ELSE /\ users' = Insert(users, nextId, doc)
                /\ nextId' = nextId + 1
                /\ Await(p, req[p], "register_save2",
                         [NoLoc EXCEPT !.uid = nextId, !.doc = Insert(users, nextId, doc)[nextId]])
        /\ NoIssue /\ ClockUnchanged

\* generateVerificationToken, generateAuthTokens, user.refreshToken = ..., await user.save()
RegisterSave2(p) ==
    LET id  == loc[p].uid
        vt  == generateVerificationToken(env, id, now)
        at  == generateAuthTokens_Access(env, id, loc[p].doc.role, now)
        rt  == generateAuthTokens_Refresh(env, id, now)
        doc == Assign(loc[p].doc, [refreshToken |-> rt])
        out == IF ~SecretsConfigured(env) THEN "JWT secrets are not configured"
               ELSE SaveOutcome(users, id, doc, loc[p].doc)
    IN  /\ pc[p] = "register_save2"
        /\ IF out # "ok"
           THEN /\ Finish(p, req[p], RegisterServerError(out))
                /\ UNCHANGED users
                /\ IF env.JWT_SECRET # "" THEN IssueVerification(vt) ELSE NoIssue
           ELSE /\ users' = SaveExisting(users, id, doc, loc[p].doc)
                /\ IssueRegistered(id, vt, at, rt)
                /\ Finish(p, req[p], RegisterCreated(doc, at, rt))
        /\ UNCHANGED nextId /\ ClockUnchanged

-----------------------------------------------------------------------------
(* POST /api/auth/login                                                    *)

LoginValid(b) == IsEmail(b.email)

\* a faulty variant: the no-such-email return tells the client so
LoginNoUser_Distinct ==
    Response("nouser", 404, "User not found", NoDoc, NoToken, NoFlags, {})

\* the two `Invalid credentials` returns, the deactivated return, the catch
LoginNoUser ==
    Response("nouser", 401, "Invalid credentials", NoDoc, NoToken, NoFlags, {})

LoginBadPassword ==
    Response("badpw", 401, "Invalid credentials", NoDoc, NoToken, NoFlags, {})

LoginDeactivated ==
    Response("inactive", 403, "Account is deactivated. Please contact support.",
             NoDoc, NoToken, NoFlags, {})

LoginServerError(why) ==
    Response(why, 500, "Server error during login", NoDoc, NoToken, NoFlags, {})

LoginOk(doc, accessToken, refreshToken) ==
    Response("ok", 200, "Login successful",
             UserResponse(doc, {"password", "refreshToken"}), accessToken, NoFlags,
             setTokenCookies(accessToken, refreshToken))

\* a faulty variant: isActive looked at before the password
LoginCheck_ActiveFirst(doc, password) ==
    IF ~doc.isActive THEN "inactive"
    ELSE IF ~comparePassword(doc, password) THEN "badpw"
    ELSE "ok"

\* the checks on the loaded document, in the handler's order
LoginCheck(doc, password) ==
    IF ~comparePassword(doc, password) THEN "badpw"
    ELSE IF ~doc.isActive THEN "inactive"
    ELSE "ok"

\* validators, User.findOne({ email }).select('+password'), comparePassword, isActive
LoginArrive(p, mode, email, password) ==
    LET b     == [NoBody EXCEPT !.email = email, !.password = password]
        rq    == Request("login", mode, b, 0, CookiesOf(mode, "login", NoCookies))
        found == FindByEmail(users, email)
        id    == CHOOSE i \in found : TRUE
        doc   == Select(users[id], {"refreshToken"})
        check == LoginCheck(doc, password)
    IN  /\ pc[p] = "idle"
        /\ IF ~LoginValid(b) THEN Finish(p, rq, ValidationFailed)
           ELSE IF found = {} THEN Finish(p, rq, LoginNoUser)
           ELSE IF check = "badpw" THEN Finish(p, rq, LoginBadPassword)
           ELSE IF check = "inactive" THEN Finish(p, rq, LoginDeactivated)
           ELSE Await(p, rq, "login_save1", [NoLoc EXCEPT !.uid = id, !.doc = doc])
        /\ StoreUnchanged /\ NoIssue /\ ClockUnchanged

\* user.lastLogin = new Date(); await user.save()
LoginSave1(p) ==
    LET id  == loc[p].uid
        doc == Assign(loc[p].doc, [lastLogin |-> now])
        out == SaveOutcome(users, id, doc, loc[p].doc)
    IN  /\ pc[p] = "login_save1"
        /\ IF out # "ok"
           THEN /\ Finish(p, req[p], LoginServerError(out))
                /\ UNCHANGED users
           ELSE /\ users' = SaveExisting(users, id, doc, loc[p].doc)
                /\ Await(p, req[p], "login_save2", [loc[p] EXCEPT !.doc = doc])
        /\ UNCHANGED nextId /\ NoIssue /\ ClockUnchanged

\* generateAuthTokens, user.refreshToken = ..., await user.save(), cookies, response
LoginSave2(p) ==
    LET id  == loc[p].uid
        at  == generateAuthTokens_Access(env, id, loc[p].doc.role, now)
        rt  == generateAuthTokens_Refresh(env, id, now)
        doc == Assign(loc[p].doc, [refreshToken |-> rt])
        out == IF ~SecretsConfigured(env) THEN "JWT secrets are not configured"
               ELSE SaveOutcome(users, id, doc, loc[p].doc)
    IN  /\ pc[p] = "login_save2"
        /\ IF out # "ok"
           THEN /\ Finish(p, req[p], LoginServerError(out))
                /\ UNCHANGED users /\ NoIssue
           ELSE /\ users' = SaveExisting(users, id, doc, loc[p].doc)
                /\ Issue(id, at, rt)
                /\ Finish(p, req[p], LoginOk(doc, at, rt))
        /\ UNCHANGED nextId /\ ClockUnchanged

-----------------------------------------------------------------------------
(* POST /api/auth/logout                                                   *)

LogoutOk ==
    Response("ok", 200, "Logout successful", NoDoc, NoToken, NoFlags, ClearSessionCookies)

\* User.findByIdAndUpdate(id, { $unset: { refreshToken: 1 } })
UnsetRefreshToken(store, id) ==
    IF id \in Ids(store)
    THEN [store EXCEPT ![id] = Assign(@, [refreshToken |-> NoToken])]
    ELSE store

\* the outer catch of the handler
LogoutFailed ==
    Response("error", 500, "Server error during logout", NoDoc, NoToken, NoFlags, {})

\* a faulty variant: a failing store operation reaches the outer catch
LogoutWith_Unguarded(p, mode, raw, fault) ==
    LET rq == Request("logout", mode, NoBody, 0, CookiesOf(mode, "logout", raw))
    IN  /\ pc[p] = "idle"
        /\ users' = users
        /\ Finish(p, rq, IF fault THEN LogoutFailed ELSE LogoutOk)
        /\ UNCHANGED nextId /\ NoIssue /\ ClockUnchanged

\* a faulty variant: the field is cleared only when it holds the presented token
LogoutWith_OnlyCurrent(p, mode, raw, fault) ==
    LET rq == Request("logout", mode, NoBody, 0, CookiesOf(mode, "logout", raw))
        rt == rq.cookies.refreshToken
    IN  /\ pc[p] = "idle"
        /\ users' = IF /\ rt # NoToken
                       /\ JwtVerify(rt, env.REFRESH_TOKEN_SECRET, now) = "ok"
                       /\ ~fault
                       /\ rt.id \in Ids(users)
                       /\ users[rt.id].refreshToken = rt
                    THEN UnsetRefreshToken(users, rt.id)
                    ELSE users
        /\ Finish(p, rq, LogoutOk)
        /\ UNCHANGED nextId /\ NoIssue /\ ClockUnchanged

\* the whole handler: it awaits one store operation at most; `fault` says that
\* findByIdAndUpdate throws, which the inner catch logs
LogoutWith(p, mode, raw, fault) ==
    LET rq == Request("logout", mode, NoBody, 0, CookiesOf(mode, "logout", raw))
        rt == rq.cookies.refreshToken
    IN  /\ pc[p] = "idle"
        /\ users' = IF /\ rt # NoToken
                       /\ JwtVerify(rt, env.REFRESH_TOKEN_SECRET, now) = "ok"
                       /\ ~fault
                    THEN UnsetRefreshToken(users, rt.id)
                    ELSE users
        /\ Finish(p, rq, LogoutOk)
        /\ UNCHANGED nextId /\ NoIssue /\ ClockUnchanged

Logout(p, mode, raw) == LogoutWith(p, mode, raw, FALSE)

-----------------------------------------------------------------------------
(* POST /api/auth/refresh-token                                            *)

RefreshNoToken ==
    Response("notoken", 401, "No refresh token provided", NoDoc, NoToken,
             <<"unset", "true">>, {})

RefreshNotFound ==
    Response("nomatch", 403, "Invalid refresh token", NoDoc, NoToken,
             <<"unset", "true">>, {})

\* the catch block: clears the cookies
RefreshFailed(why) ==
    Response(why, 401, "Invalid or expired refresh token", NoDoc, NoToken,
             <<"unset", "true">>, ClearSessionCookies)

RefreshOk(accessToken, refreshToken) ==
    Response("ok", 200, "", NoDoc, accessToken, NoFlags,
             setTokenCookies(accessToken, refreshToken))

\* User.findOne({ _id: decoded.id, refreshToken })
FindByIdAndToken(store, id, token) ==
    {i \in Ids(store) : i = id /\ store[i].refreshToken = token}

\* would the handler accept this refresh token in the current state
RefreshAcceptsIn(e, store, token, t) ==
    /\ token # NoToken
    /\ JwtVerify(token, e.REFRESH_TOKEN_SECRET, t) = "ok"
    /\ FindByIdAndToken(store, token.id, token) # {}

RefreshAccepts(token) == RefreshAcceptsIn(env, users, token, now)

\* cookie check, jwt.verify, User.findOne({ _id, refreshToken }); `fault` says
\* that the findOne throws
RefreshArriveWith(p, mode, raw, fault) ==
    LET rq    == Request("refresh", mode, NoBody, 0, CookiesOf(mode, "refresh", raw))
        rt    == rq.cookies.refreshToken
        v     == JwtVerify(rt, env.REFRESH_TOKEN_SECRET, now)
        found == FindByIdAndToken(users, rt.id, rt)
        id    == CHOOSE i \in found : TRUE
    IN  /\ pc[p] = "idle"
        /\ IF rt = NoToken THEN Finish(p, rq, RefreshNoToken)
           ELSE IF v # "ok" THEN Finish(p, rq, RefreshFailed(v))
           ELSE IF fault THEN Finish(p, rq, RefreshFailed("MongoError"))
           ELSE IF found = {} THEN Finish(p, rq, RefreshNotFound)
           ELSE Await(p, rq, "refresh_save",
                      [NoLoc EXCEPT !.uid = id,
                                    !.doc = Select(users[id], {"password", "refreshToken"})])
        /\ StoreUnchanged /\ NoIssue /\ ClockUnchanged

RefreshArrive(p, mode, raw) == RefreshArriveWith(p, mode, raw, FALSE)

\* generateAuthTokens, user.refreshToken = ..., await user.save(), cookies, response
RefreshSave(p) ==
    LET id  == loc[p].uid
        at  == generateAuthTokens_Access(env, id, loc[p].doc.role, now)
        rt  == generateAuthTokens_Refresh(env, id, now)
        doc == Assign(loc[p].doc, [refreshToken |-> rt])
        out == IF ~SecretsConfigured(env) THEN "JWT secrets are not configured"
               ELSE SaveOutcome(users, id, doc, loc[p].doc)
    IN  /\ pc[p] = "refresh_save"
        /\ IF out # "ok"
           THEN /\ Finish(p, req[p], RefreshFailed(out))
                /\ UNCHANGED users /\ NoIssue
           ELSE /\ users' = SaveExisting(users, id, doc, loc[p].doc)
                /\ Issue(id, at, rt)
                /\ Finish(p, req[p], RefreshOk(at, rt))
        /\ UNCHANGED nextId /\ ClockUnchanged

-----------------------------------------------------------------------------
(* middleware: protect, admin                                              *)

\* a faulty variant: every verification error reported as an invalid token
verifyAccessToken_OneKind(e, token, t) ==
    IF JwtVerify(token, e.JWT_SECRET, t) = "ok" THEN "ok" ELSE "Invalid access token"

\* verifyAccessToken: "ok" or the message of the Error it throws
verifyAccessToken(e, token, t) ==
    LET v == JwtVerify(token, e.JWT_SECRET, t)
    IN  IF v = "ok" THEN "ok"
        ELSE IF v = "TokenExpiredError" THEN "Access token expired"
        ELSE "Invalid access token"

ProtectNoToken ==
    Response("noaccess", 401, "No access token provided", NoDoc, NoToken,
             <<"true", "unset">>, {})

\* a faulty variant: every rejection tells the client to refresh
ProtectRejected_Refresh(errorMessage) ==
    Response(errorMessage, 401, "Access token expired", NoDoc, NoToken,
             <<"true", "false">>, {})

\* the inner catch of protect
ProtectRejected(errorMessage) ==
    LET isExpired == errorMessage = "Access token expired"
    IN  Response(errorMessage, 401,
                 IF isExpired THEN "Access token expired" ELSE "Invalid access token",
                 NoDoc, NoToken,
                 << IF isExpired THEN "true" ELSE "false",
                    IF isExpired THEN "false" ELSE "true" >>, {})

\* a faulty variant: protect also turns away a deactivated account
ProtectWith_ChecksActive(e, store, cookies, t, fault) ==
    LET accessToken == IF cookies.accessToken # NoToken THEN cookies.accessToken
                       ELSE cookies.token
        v == verifyAccessToken(e, accessToken, t)
    IN  IF accessToken = NoToken THEN ProtectNoToken
        ELSE IF v # "ok" THEN ProtectRejected(v)
        ELSE IF accessToken.id \notin Ids(store) THEN ProtectRejected("User not found")
        ELSE IF ~store[accessToken.id].isActive THEN ProtectRejected("User not found")
        ELSE NoResponse

\* protect on request cookies: the rejection, or NoResponse when next() is called;
\* `fault` says that User.findById throws (the store cannot be reached)
ProtectWith(e, store, cookies, t, fault) ==
    LET accessToken == IF cookies.accessToken # NoToken THEN cookies.accessToken
                       ELSE cookies.token
        v == verifyAccessToken(e, accessToken, t)
    IN  IF accessToken = NoToken THEN ProtectNoToken
        ELSE IF v # "ok" THEN ProtectRejected(v)
        ELSE IF fault THEN ProtectRejected("MongoError")
        ELSE IF accessToken.id \notin Ids(store) THEN ProtectRejected("User not found")
        ELSE NoResponse

Protect(e, store, cookies, t) == ProtectWith(e, store, cookies, t, FALSE)

\* req.user as protect attaches it
AttachedUser(store, cookies) ==
    LET accessToken == IF cookies.accessToken # NoToken THEN cookies.accessToken
                       ELSE cookies.token
    IN  [ id |-> accessToken.id,
          doc |-> Select(store[accessToken.id], {"password", "refreshToken"}) ]

AdminForbidden ==
    Response("notadmin", 403, "Not authorized as an admin", NoDoc, NoToken, NoFlags, {})

\* a faulty variant: any attached identity passes
AdminPasses_AnyUser(user) == user # NoDoc

\* admin: does the role gate call next()
AdminPasses(user) == user # NoDoc /\ user.doc.role = "admin"

-----------------------------------------------------------------------------
(* PUT /api/users/profile                                                  *)

\* an optional body field that was not sent
NoName == ""
NoEmail == <<>>
NoPassword == Plain("")

PutProfileValid(b) ==
    /\ b.name # NoName => Len(b.name) >= 2
    /\ b.email # NoEmail => IsEmail(b.email)
    /\ b.password # NoPassword => Len(b.password.plain) >= 8

UsersServerError(why) ==
    Response(why, 500, "Server Error", NoDoc, NoToken, NoFlags, {})

UserNotFound ==
    Response("notfound", 404, "User not found", NoDoc, NoToken, NoFlags, {})

EmailInUse ==
    Response("inuse", 400, "Email already in use", NoDoc, NoToken, NoFlags, {})

PutProfileOk(doc) ==
    Response("ok", 200, "", UserResponse(doc, {"password", "refreshToken"}),
             NoToken, NoFlags, {})

\* protect and the validators
PutProfileArrive(p, mode, raw, email, password) ==
    LET b  == [NoBody EXCEPT !.email = email, !.password = password]
        rq == Request("putProfile", mode, b, 0, CookiesOf(mode, "putProfile", raw))
        rejected == Protect(env, users, rq.cookies, now)
    IN  /\ pc[p] = "idle"
        /\ IF rejected # NoResponse THEN Finish(p, rq, rejected)
           ELSE IF ~PutProfileValid(b) THEN Finish(p, rq, ValidationFailed)
           ELSE Await(p, rq, "putProfile_find",
                      [NoLoc EXCEPT !.user = AttachedUser(users, rq.cookies)])
        /\ StoreUnchanged /\ NoIssue /\ ClockUnchanged

\* does the handler assign user.email
PutProfileChangesEmail(b, doc) == b.email # NoEmail /\ b.email # doc.email

\* User.findById(req.user._id).select('+password')
PutProfileFind(p) ==
    LET id  == loc[p].user.id
        doc == Select(users[id], {"refreshToken"})
    IN  /\ pc[p] = "putProfile_find"
        /\ IF id \notin Ids(users) THEN Finish(p, req[p], UserNotFound)
           ELSE Await(p, req[p],
                      IF PutProfileChangesEmail(req[p].body, doc)
                      THEN "putProfile_check" ELSE "putProfile_save",
                      [loc[p] EXCEPT !.uid = id, !.doc = doc])
        /\ StoreUnchanged /\ NoIssue /\ ClockUnchanged

\* User.findOne({ email }) and the comparison of ids
PutProfileCheck(p) ==
    LET existing == FindByEmail(users, req[p].body.email)
    IN  /\ pc[p] = "putProfile_check"
        /\ IF \E i \in existing : i # loc[p].uid THEN Finish(p, req[p], EmailInUse)
           ELSE Await(p, req[p], "putProfile_save", loc[p])
        /\ StoreUnchanged /\ NoIssue /\ ClockUnchanged

\* the assignments and await user.save()
PutProfileSave(p) ==
    LET b    == req[p].body
        snap == loc[p].doc
        d1   == IF b.name # NoName THEN Assign(snap, [name |-> b.name]) ELSE snap
        d2   == IF PutProfileChangesEmail(b, snap)
                THEN Assign(d1, [email |-> EmailSetter(b.email)]) ELSE d1
        doc  == IF b.password # NoPassword
                THEN Assign(d2, [password |-> b.password]) ELSE d2
        out  == SaveOutcome(users, loc[p].uid, doc, snap)
    IN  /\ pc[p] = "putProfile_save"
        /\ IF out # "ok"
           THEN /\ Finish(p, req[p], UsersServerError(out))
                /\ UNCHANGED users
           ELSE /\ users' = SaveExisting(users, loc[p].uid, doc, snap)
                /\ Finish(p, req[p], PutProfileOk(PreSave(doc, snap)))
        /\ UNCHANGED nextId /\ NoIssue /\ ClockUnchanged

-----------------------------------------------------------------------------
(* PUT /api/users/:id                                                      *)

PutUserValid(b) == Len(b.name) > 0 /\ IsEmail(b.email)

PutUserOk(doc) ==
    Response("ok", 200, "", UserResponse(doc, {"password"}), NoToken, NoFlags, {})

\* protect, admin and the validators
PutUserArrive(p, mode, raw, id, name, email, role, isActive) ==
    LET b  == [NoBody EXCEPT !.name = name, !.email = email, !.role = role,
                             !.isActive = isActive]
        rq == Request("putUser", mode, b, id, CookiesOf(mode, "putUser", raw))
        rejected == Protect(env, users, rq.cookies, now)
    IN  /\ pc[p] = "idle"
        /\ IF rejected # NoResponse THEN Finish(p, rq, rejected)
           ELSE IF ~AdminPasses(AttachedUser(users, rq.cookies))
                THEN Finish(p, rq, AdminForbidden)
           ELSE IF ~PutUserValid(b) THEN Finish(p, rq, ValidationFailed)
           ELSE Await(p, rq, "putUser_find",
                      [NoLoc EXCEPT !.user = AttachedUser(users, rq.cookies)])
        /\ StoreUnchanged /\ NoIssue /\ ClockUnchanged

\* User.findById(req.params.id)
PutUserFind(p) ==
    LET id  == req[p].id
        doc == Select(users[id], {"password", "refreshToken"})
    IN  /\ pc[p] = "putUser_find"
        /\ IF id \notin Ids(users) THEN Finish(p, req[p], UserNotFound)
           ELSE Await(p, req[p],
                      IF req[p].body.email # doc.email
                      THEN "putUser_check" ELSE "putUser_save",
                      [loc[p] EXCEPT !.uid = id, !.doc = doc])
        /\ StoreUnchanged /\ NoIssue /\ ClockUnchanged

\* User.findOne({ email })
PutUserCheck(p) ==
    /\ pc[p] = "putUser_check"
    /\ IF FindByEmail(users, req[p].body.email) # {} THEN Finish(p, req[p], EmailInUse)
       ELSE Await(p, req[p], "putUser_save", loc[p])
    /\ StoreUnchanged /\ NoIssue /\ ClockUnchanged

\* the assignments and await user.save()
PutUserSave(p) ==
    LET b    == req[p].body
        snap == loc[p].doc
        d1   == Assign(snap, [name |-> b.name, email |-> EmailSetter(b.email)])
        d2   == IF b.role # "" THEN Assign(d1, [role |-> b.role]) ELSE d1
        doc  == IF b.isActive # "unset"
                THEN Assign(d2, [isActive |-> (b.isActive = "true")]) ELSE d2
        out  == SaveOutcome(users, loc[p].uid, doc, snap)
    IN  /\ pc[p] = "putUser_save"
        /\ IF out # "ok"
           THEN /\ Finish(p, req[p], UsersServerError(out))
                /\ UNCHANGED users
           ELSE /\ users' = SaveExisting(users, loc[p].uid, doc, snap)
                /\ Finish(p, req[p], PutUserOk(doc))
        /\ UNCHANGED nextId /\ NoIssue /\ ClockUnchanged

-----------------------------------------------------------------------------
(* GET /api/users/profile, GET /api/users, GET /api/users/:id              *)

GetProfileOk(doc) ==
    Response("ok", 200, "", doc, NoToken, NoFlags, {})

\* protect; `fault` says that protect's User.findById throws
GetProfileArrive(p, mode, raw, fault) ==
    LET rq == Request("getProfile", mode, NoBody, 0, CookiesOf(mode, "getProfile", raw))
        rejected == ProtectWith(env, users, rq.cookies, now, fault)
    IN  /\ pc[p] = "idle"
        /\ IF rejected # NoResponse THEN Finish(p, rq, rejected)
           ELSE Await(p, rq, "getProfile_find",
                      [NoLoc EXCEPT !.user = AttachedUser(users, rq.cookies)])
        /\ StoreUnchanged /\ NoIssue /\ ClockUnchanged

\* User.findById(req.user._id).select('-password -refreshToken')
GetProfileFind(p) ==
    LET id == loc[p].user.id
    IN  /\ pc[p] = "getProfile_find"
        /\ IF id \notin Ids(users) THEN Finish(p, req[p], UserNotFound)
           ELSE Finish(p, req[p],
                       GetProfileOk(Select(users[id], {"password", "refreshToken"})))
        /\ StoreUnchanged /\ NoIssue /\ ClockUnchanged

\* the body of GET /api/users: the page of documents and the count
GetUsersOk(list, total) ==
    Response("ok", 200, "", [users |-> list, totalUsers |-> total],
             NoToken, NoFlags, {})

\* protect, admin
GetUsersArrive(p, mode, raw) ==
    LET rq == Request("getUsers", mode, NoBody, 0, CookiesOf(mode, "getUsers", raw))
        rejected == Protect(env, users, rq.cookies, now)
    IN  /\ pc[p] = "idle"
        /\ IF rejected # NoResponse THEN Finish(p, rq, rejected)
           ELSE IF ~AdminPasses(AttachedUser(users, rq.cookies))
                THEN Finish(p, rq, AdminForbidden)
           ELSE Await(p, rq, "getUsers_find",
                      [NoLoc EXCEPT !.user = AttachedUser(users, rq.cookies)])
        /\ StoreUnchanged /\ NoIssue /\ ClockUnchanged

\* User.find({}).select('-password'): refreshToken stays out, it is select: false
GetUsersFind(p) ==
    /\ pc[p] = "getUsers_find"
    /\ Await(p, req[p], "getUsers_count",
             [loc[p] EXCEPT !.doc = [i \in Ids(users) |->
                                        Select(users[i], {"password", "refreshToken"})]])
    /\ StoreUnchanged /\ NoIssue /\ ClockUnchanged

\* User.countDocuments() and the response
GetUsersCount(p) ==
    /\ pc[p] = "getUsers_count"
    /\ Finish(p, req[p], GetUsersOk(loc[p].doc, Cardinality(Ids(users))))
    /\ StoreUnchanged /\ NoIssue /\ ClockUnchanged

\* protect, admin
GetUserArrive(p, mode, raw, id) ==
    LET rq == Request("getUser", mode, NoBody, id, CookiesOf(mode, "getUser", raw))
        rejected == Protect(env, users, rq.cookies, now)
    IN  /\ pc[p] = "idle"
        /\ IF rejected # NoResponse THEN Finish(p, rq, rejected)
           ELSE IF ~AdminPasses(AttachedUser(users, rq.cookies))
                THEN Finish(p, rq, AdminForbidden)
           ELSE Await(p, rq, "getUser_find",
                      [NoLoc EXCEPT !.user = AttachedUser(users, rq.cookies)])
        /\ StoreUnchanged /\ NoIssue /\ ClockUnchanged

\* User.findById(req.params.id).select('-password')
GetUserFind(p) ==
    LET id == req[p].id
    IN  /\ pc[p] = "getUser_find"
        /\ IF id \notin Ids(users) THEN Finish(p, req[p], UserNotFound)
           ELSE Finish(p, req[p],
                       GetProfileOk(Select(users[id], {"password", "refreshToken"})))
        /\ StoreUnchanged /\ NoIssue /\ ClockUnchanged

-----------------------------------------------------------------------------
(* DELETE /api/users/:id                                                   *)

CannotDeleteSelf ==
    Response("self", 400, "Cannot delete your own account", NoDoc, NoToken, NoFlags, {})

UserRemoved ==
    Response("ok", 200, "User removed", NoDoc, NoToken, NoFlags, {})

\* user.remove(): the collection without the document
Remove(store, id) == [i \in Ids(store) \ {id} |-> store[i]]

\* protect, admin
DeleteUserArrive(p, mode, raw, id) ==
    LET rq == Request("deleteUser", mode, NoBody, id, CookiesOf(mode, "deleteUser", raw))
        rejected == Protect(env, users, rq.cookies, now)
    IN  /\ pc[p] = "idle"
        /\ IF rejected # NoResponse THEN Finish(p, rq, rejected)
           ELSE IF ~AdminPasses(AttachedUser(users, rq.cookies))
                THEN Finish(p, rq, AdminForbidden)
           ELSE Await(p, rq, "deleteUser_find",
                      [NoLoc EXCEPT !.user = AttachedUser(users, rq.cookies)])
        /\ StoreUnchanged /\ NoIssue /\ ClockUnchanged

\* User.findById(req.params.id) and the own-account check
DeleteUserFind(p) ==
    LET id == req[p].id
    IN  /\ pc[p] = "deleteUser_find"
        /\ IF id \notin Ids(users) THEN Finish(p, req[p], UserNotFound)
           ELSE IF id = loc[p].user.id THEN Finish(p, req[p], CannotDeleteSelf)
           ELSE Await(p, req[p], "deleteUser_remove", [loc[p] EXCEPT !.uid = id])
        /\ StoreUnchanged /\ NoIssue /\ ClockUnchanged

\* await user.remove() and the response
DeleteUserRemove(p) ==
    /\ pc[p] = "deleteUser_remove"
    /\ users' = Remove(users, loc[p].uid)
    /\ Finish(p, req[p], UserRemoved)
    /\ UNCHANGED nextId /\ NoIssue /\ ClockUnchanged

-----------------------------------------------------------------------------
(* The clock                                                               *)

Tick(d) ==
    /\ ticks < MaxTicks
    /\ now' = now + d
    /\ ticks' = ticks + 1
    /\ UNCHANGED <<env, users, nextId, pc, req, loc, resp, jar, issued, superseded,
                   products, orders>>

-----------------------------------------------------------------------------
(* server.js: startup                                                      *)

\* startServer: create the default admin unless one exists; a failure is logged only
startServer(store) ==
    LET hashedPassword == BcryptHash(Plain("admin123"))
        adminUser == NewUser("Admin", AdminEmail, hashedPassword, "admin")
        id == Cardinality(Ids(store)) + 1
    IN  IF FindByEmail(store, AdminEmail) = {} /\ InsertOutcome(store, adminUser) = "ok"
        THEN Insert(store, id, adminUser)
        ELSE store

\* a document written by an earlier run of the server
Existing(name, local, pw, role, isActive) ==
    [NewUser(name, Mail(local), BcryptHash(Plain(pw)), role) EXCEPT !.isActive = isActive]

StoreOf(docs) == [i \in 1..Len(docs) |-> docs[i]]

Root == Existing("Root", "r", "password1", "admin", TRUE)
Alice == Existing("Alice", "a", "password1", "user", TRUE)
Bob == Existing("Bob", "b", "password1", "user", FALSE)

\* the collection the server finds when it starts
FreshStore == StoreOf(<<>>)
RootStore == StoreOf(<<Root>>)
UsedStore == StoreOf(<<Alice, Bob>>)

\* process.env with both token secrets set
Configured ==
    [JWT_SECRET |-> "access-secret", REFRESH_TOKEN_SECRET |-> "refresh-secret"]

\* startServer's validation of process.env: does it throw before connecting
StartupFails(e) == e.JWT_SECRET = ""

\* the state once the module has run startServer() under environment e: either
\* the process has exited (process.exit(1)) or the app listens
Started(e, stores) ==
    /\ env = e
    /\ users \in IF StartupFails(e) THEN stores ELSE {startServer(s) : s \in stores}
    /\ nextId = Cardinality(Ids(users)) + 1
    /\ now = 0
    /\ ticks = 0
    /\ pc = [p \in Procs |-> IF StartupFails(e) THEN "exited" ELSE "idle"]
    /\ req = [p \in Procs |-> NoRequest]
    /\ loc = [p \in Procs |-> NoLoc]
    /\ resp = [p \in Procs |-> NoResponse]
    /\ jar = EmptyJar
    /\ issued = [access |-> {}, refresh |-> {}, verification |-> {}]
    /\ superseded = {}

InitUsers(stores) == Started(Configured, stores)

\* no product and no order yet
InitWith(stores) ==
    /\ InitUsers(stores)
    /\ products = <<>>
    /\ orders = <<>>

-----------------------------------------------------------------------------------------------------------------------------------------------------
(* Inputs                                                                  *)

\* p1 is the browser whose cookie jar the model follows; p2 is any other sender
ModeOf(p) == IF p = "p1" THEN "browser" ELSE "raw"

GoodPassword == Plain("password1")
OtherPassword == Plain("password2")
BadEmail == <<"a">>

\* cookies a sender other than the browser can present: tokens handed out earlier
RawRefreshCookies ==
    { [NoCookies EXCEPT !.refreshToken = t] : t \in issued.refresh \cup {Garbage, NoToken} }
RawAccessCookies ==
    { [NoCookies EXCEPT !.accessToken = t] : t \in issued.access \cup {NoToken} }

CookieChoices(p, raw) == IF ModeOf(p) = "browser" THEN {NoCookies} ELSE raw

-----------------------------------------------------------------------------
(* Sessions: login, refresh and logout of existing accounts, interleaved    *)

Init == InitWith({UsedStore})

LoginInputs ==
    { <<Mail("a"), GoodPassword>>, <<Mail("a"), OtherPassword>>,
      <<Mail("b"), GoodPassword>>, <<Mail("b"), OtherPassword>>,
      <<Mail("c"), GoodPassword>>, <<BadEmail, GoodPassword>> }

Login(p) ==
    \E in \in LoginInputs : LoginArrive(p, ModeOf(p), in[1], in[2])

LogoutRequest(p) ==
    \E raw \in CookieChoices(p, RawRefreshCookies) : Logout(p, ModeOf(p), raw)

Refresh(p) ==
    \E raw \in CookieChoices(p, RawRefreshCookies) : RefreshArrive(p, ModeOf(p), raw)

\* the clock moves by whole seconds
Advance == \E d \in {1} : Tick(d)

Next ==
    \/ \E p \in Procs : Login(p)
    \/ \E p \in Procs : LoginSave1(p)
    \/ \E p \in Procs : LoginSave2(p)
    \/ \E p \in Procs : LogoutRequest(p)
    \/ \E p \in Procs : Refresh(p)
    \/ \E p \in Procs : RefreshSave(p)
    \/ Advance

Spec == Init /\ [][Next]_vars

-----------------------------------------------------------------------------
(* Properties of sessions                                                  *)

\* the refreshToken cookie a response sets, NoToken when it sets none
RefreshCookieOf(r) ==
    IF \E c \in r.setCookie : c.name = "refreshToken" /\ c.maxAge > 0
    THEN (CHOOSE c \in r.setCookie : c.name = "refreshToken").value
    ELSE NoToken

\* C1: for every user at most one refresh token is accepted by RefreshSession, the
\* one stored on the record; once Login or RefreshSession hands out a new refresh
\* token for a user, every refresh token handed out earlier for that user is rejected.
C1_OnlyLatestRefreshTokenAccepted ==
    /\ \A t \in issued.refresh :
          RefreshAccepts(t) => users[t.id].refreshToken = t
    /\ \A t \in superseded : ~RefreshAccepts(t)

\* C2: of two RefreshSession requests presenting the same token that both read the
\* store before either wrote it, at most one succeeds: when q has already succeeded
\* and rotated the token away, p, still suspended at its save, must fail.
C2_ConcurrentRefreshOnlyOneSucceeds ==
    [][ \A p, q \in Procs :
          ( /\ p # q
            /\ pc[p] = "refresh_save"
            /\ pc[q] = "idle" /\ req[q].op = "refresh" /\ resp[q].status = 200
            /\ req[q].cookies.refreshToken = req[p].cookies.refreshToken
            /\ RefreshCookieOf(resp[q]) # req[q].cookies.refreshToken
            /\ RefreshSave(p) )
          => resp'[p].status # 200 ]_vars

\* C3: after a RefreshSession succeeded for a presented token, a RefreshSession
\* presenting that token again is not accepted: it is answered with the
\* invalid-refresh failure and the store keeps the token the first refresh issued.
C3_ReplayedRefreshTokenRejected ==
    [][ \A p, q \in Procs :
          ( /\ p # q
            /\ pc[p] = "idle" /\ req[p].op = "refresh" /\ resp[p].status = 200
            /\ pc[q] = "idle" /\ req'[q].op = "refresh"
            /\ req'[q].cookies.refreshToken = req[p].cookies.refreshToken
            /\ users[req[p].cookies.refreshToken.id].refreshToken = RefreshCookieOf(resp[p])
            /\ RefreshArrive(q, ModeOf(q), req'[q].cookies) )
          => ( /\ pc'[q] = "idle"
               /\ resp'[q] = RefreshNotFound
               /\ users' = users ) ]_vars

\* C4: when the browser, holding the cookies of a successful Register or Login,
\* sends Logout with the cookies whose path covers the logout path, the user's
\* stored refresh token is cleared and the refresh token the browser held is
\* no longer accepted.
C4_LogoutRevokesSession ==
    [][ ( /\ jar.refreshToken.value # NoToken
          /\ jar.accessToken.value # NoToken
          /\ Logout("p1", "browser", NoCookies) )
        => ( /\ users'[jar.refreshToken.value.id].refreshToken = NoToken
             /\ ~RefreshAccepts(jar.refreshToken.value)' ) ]_vars

\* C9: a Login answered from the no-such-email return and a Login answered from
\* the wrong-password return receive the same response: status 401, the same
\* body, no cookies.
C9_LoginFailuresIndistinguishable ==
    \A p, q \in Procs :
        (resp[p].branch = "nouser" /\ resp[q].branch = "badpw")
        => ( /\ Wire(resp[p]) = Wire(resp[q])
             /\ resp[p].status = 401
             /\ resp[p].setCookie = {} /\ resp[p].accessToken = NoToken )

C9_Witness ==
    /\ req["p1"].op = "login" /\ resp["p1"].branch = "nouser"
    /\ FindByEmail(users, req["p1"].body.email) = {}
    /\ req["p2"].op = "login" /\ resp["p2"].branch = "badpw"
    /\ FindByEmail(users, req["p2"].body.email) # {}

\* C10: a Login that finds a record whose isActive is false is answered 403
\* (deactivated) only when the password matches and 401 `Invalid credentials`
\* when it does not; either way no token is issued, no cookie is set and the
\* store (lastLogin and refreshToken included) is unchanged.
C10_DeactivatedLogin ==
    [][ \A p \in Procs :
          LET in    == <<req'[p].body.email, req'[p].body.password>>
              found == FindByEmail(users, in[1])
              id    == CHOOSE i \in found : TRUE
          IN  ( /\ pc[p] = "idle" /\ req'[p].op = "login"
                /\ IsEmail(in[1])
                /\ found # {}
                /\ ~users[id].isActive
                /\ LoginArrive(p, ModeOf(p), in[1], in[2]) )
              => ( /\ pc'[p] = "idle"
                   /\ resp'[p].status =
                         (IF BcryptCompare(in[2], users[id].password) THEN 403 ELSE 401)
                   /\ resp'[p].status = 401 => Wire(resp'[p]) = Wire(LoginBadPassword)
                   /\ resp'[p].accessToken = NoToken
                   /\ resp'[p].setCookie = {}
                   /\ users' = users
                   /\ issued' = issued
                   /\ jar' = jar ) ]_vars

C10_Witness ==
    /\ req["p1"].op = "login" /\ resp["p1"].status = 403
    /\ req["p2"].op = "login" /\ resp["p2"].status = 401
    /\ req["p1"].body.email = req["p2"].body.email
    /\ \E i \in FindByEmail(users, req["p1"].body.email) : ~users[i].isActive

-----------------------------------------------------------------------------
(* Serialized requests: a request arrives only when no handler is running  *)

AllIdle == \A q \in Procs : pc[q] = "idle"

InitSeq == InitWith({FreshStore, UsedStore})

RegisterInputs == {Mail("c"), Mail("C"), Mail("A"), BadEmail}

Register(p) ==
    \E email \in RegisterInputs :
        RegisterArrive(p, ModeOf(p), "Cy", email, GoodPassword)

\* one client, the browser
SeqProcs == {"p1"}

NextSeq ==
    \/ \E p \in SeqProcs : AllIdle /\ Register(p)
    \/ \E p \in SeqProcs : RegisterSave1(p)
    \/ \E p \in SeqProcs : RegisterSave2(p)
    \/ \E p \in SeqProcs : AllIdle /\ Login(p)
    \/ \E p \in SeqProcs : LoginSave1(p)
    \/ \E p \in SeqProcs : LoginSave2(p)
    \/ \E p \in SeqProcs : AllIdle /\ LogoutRequest(p)
    \/ \E p \in SeqProcs : AllIdle /\ Refresh(p)
    \/ \E p \in SeqProcs : RefreshSave(p)
    \/ Advance

SpecSeq == InitSeq /\ [][NextSeq]_vars

\* the records whose email equals e up to letter case
SameEmail(store, e) ==
    {i \in Ids(store) : ToLowerCase(store[i].email) = ToLowerCase(e)}

\* C5: after every successful Register, Login or RefreshSession with no other
\* request running, the user's stored refresh token is the value of the response's
\* refreshToken cookie, the response body does not carry it, and a RefreshSession
\* presenting it is accepted and succeeds.
C5_StoredTokenIsCookie ==
    [][ \A p \in Procs :
          /\ ( /\ pc[p] \in {"register_save2", "login_save2", "refresh_save"}
               /\ pc'[p] = "idle"
               /\ resp'[p].status \in {200, 201} )
             => LET c == RefreshCookieOf(resp'[p])
                IN  /\ c # NoToken
                    /\ users'[loc[p].uid].refreshToken = c
                    /\ resp'[p].accessToken # c
                    /\ "refreshToken" \notin DOMAIN resp'[p].user
                    /\ RefreshAcceptsIn(env', users', c, now')
          /\ ( /\ pc[p] = "idle" /\ req'[p].op = "refresh"
               /\ RefreshAccepts(req'[p].cookies.refreshToken)
               /\ RefreshArrive(p, ModeOf(p), req'[p].cookies) )
             => pc'[p] = "refresh_save"
          /\ RefreshSave(p)
             => /\ resp'[p].status = 200
                /\ resp'[p].accessToken \in issued'.access ]_vars

\* the browser holds a rotated session: it refreshed with the cookie of an earlier
\* response and now holds the newer cookie
C5_Witness ==
    /\ req["p1"].op = "refresh" /\ resp["p1"].status = 200
    /\ req["p1"].cookies.refreshToken # RefreshCookieOf(resp["p1"])
    /\ jar.refreshToken.value = RefreshCookieOf(resp["p1"])
    /\ users[jar.refreshToken.value.id].refreshToken = jar.refreshToken.value

\* C8: of two Registers in sequence whose emails are equal up to letter case, the
\* first succeeds and leaves exactly one record for the email, and the second is
\* answered 400 `Email is already registered` and leaves the store unchanged.
C8_SecondRegisterIsDuplicate ==
    [][ \A p \in Procs :
          /\ ( /\ pc[p] = "idle" /\ req'[p].op = "register"
               /\ RegisterValid(req'[p].body)
               /\ RegisterArrive(p, ModeOf(p), req'[p].body.name, req'[p].body.email,
                                 req'[p].body.password) )
             => IF SameEmail(users, req'[p].body.email) # {}
                THEN /\ pc'[p] = "idle"
                     /\ resp'[p].status = 400
                     /\ resp'[p].message = "Email is already registered"
                     /\ users' = users
                ELSE pc'[p] = "register_save1"
          /\ RegisterSave1(p) => pc'[p] = "register_save2"
          /\ RegisterSave2(p)
             => /\ resp'[p].status = 201
                /\ Cardinality(SameEmail(users', req[p].body.email)) = 1 ]_vars

\* the record made by an earlier Register of c@x.c is in the store and the Register
\* of C@x.c has just been answered as a duplicate
C8_Witness ==
    /\ req["p1"].op = "register" /\ resp["p1"] = RegisterDuplicate
    /\ req["p1"].body.email = Mail("C")
    /\ \E i \in Ids(users) : users[i].name = "Cy" /\ users[i].email = Mail("c")
    /\ Cardinality(SameEmail(users, req["p1"].body.email)) = 1

-----------------------------------------------------------------------------
(* Accounts: registrations and updates of the email, interleaved           *)

InitAccounts == InitWith({RootStore})

RegisterAccount(p) ==
    \E email \in {Mail("c"), Mail("C")} :
        RegisterArrive(p, ModeOf(p), "Cy", email, GoodPassword)

LoginAccount(p) ==
    LoginArrive(p, ModeOf(p), Mail("r"), GoodPassword)

PutProfileInputs ==
    { <<Mail("R"), NoPassword>>, <<Mail("C"), NoPassword>> }

PutProfile(p) ==
    \E raw \in CookieChoices(p, RawAccessCookies), in \in PutProfileInputs :
        PutProfileArrive(p, ModeOf(p), raw, in[1], in[2])

PutUserInputs ==
    { <<1, Mail("c"), "unset">>, <<3, Mail("R"), "unset">>, <<3, Mail("C"), "false">> }

PutUser(p) ==
    \E raw \in CookieChoices(p, RawAccessCookies), in \in PutUserInputs :
        PutUserArrive(p, ModeOf(p), raw, in[1], "Cy", in[2], "", in[3])

NextAccounts ==
    \/ \E p \in Procs : RegisterAccount(p)
    \/ \E p \in Procs : RegisterSave1(p)
    \/ \E p \in Procs : RegisterSave2(p)
    \/ \E p \in Procs : LoginAccount(p)
    \/ \E p \in Procs : LoginSave1(p)
    \/ \E p \in Procs : LoginSave2(p)
    \/ \E p \in Procs : PutProfile(p)
    \/ \E p \in Procs : PutProfileFind(p)
    \/ \E p \in Procs : PutProfileCheck(p)
    \/ \E p \in Procs : PutProfileSave(p)
    \/ \E p \in Procs : PutUser(p)
    \/ \E p \in Procs : PutUserFind(p)
    \/ \E p \in Procs : PutUserCheck(p)
    \/ \E p \in Procs : PutUserSave(p)

SpecAccounts == InitAccounts /\ [][NextAccounts]_vars

\* C6: no two stored records have the same email up to letter case, whatever the
\* interleaving of Register, PUT /api/users/profile and PUT /api/users/:id; and a
\* Register whose email is present in the store, when it looks the email up or
\* when it inserts, is rejected and leaves the store unchanged.
C6_EmailUnique ==
    /\ [](\A i \in Ids(users) : SameEmail(users, users[i].email) = {i})
    /\ [][ \A p \in Procs :
             ( /\ req'[p].op = "register" /\ RegisterValid(req'[p].body)
               /\ SameEmail(users, req'[p].body.email) # {}
               /\ \/ pc[p] = "idle" /\ pc'[p] # "idle"
                  \/ pc[p] = "idle" /\ resp'[p] # resp[p]
                  \/ pc[p] = "register_save1" /\ pc'[p] # "register_save1" )
             => ( /\ pc'[p] = "idle"
                  /\ resp'[p].status \in {400, 500}
                  /\ users' = users ) ]_vars

\* two records would have collided: a request found its email taken at the save,
\* after its lookup had found it free, and the store holds one record for the email
C6_Witness ==
    \E p \in Procs :
        /\ pc[p] = "idle" /\ req[p].op = "register" /\ resp[p].branch = "E11000"
        /\ Cardinality(SameEmail(users, req[p].body.email)) = 1

\* C7: when two Registers with the same email both pass the lookup before either
\* inserts, one record is stored and the Register that loses at the insert is
\* answered with the duplicate-email client error, not with a server fault.
C7_RaceLoserGetsConflict ==
    [][ \A p \in Procs :
          ( /\ pc[p] = "register_save1"
            /\ SameEmail(users, req[p].body.email) # {}
            /\ RegisterSave1(p) )
          => ( /\ resp'[p].status \in {400, 409}
               /\ Cardinality(SameEmail(users', req[p].body.email)) = 1 ) ]_vars

-----------------------------------------------------------------------------
(* Guards: one sender presenting any cookie it can have, one request at a  *)
(* time, against protect (behind GET /profile) and refresh-token, while    *)
(* the clock passes token lifetimes and the store may fail                 *)

GuardProcs == {"p2"}

GuardStore == StoreOf(<<Alice>>)

InitGuard == InitWith({GuardStore})

\* a token with a plausible payload signed with a key that is not the server's
Forged ==
    [id |-> 1, role |-> "admin", iat |-> 0, exp |-> 2 * RefreshTTL, key |-> "forged"]

\* what the sender can put into the accessToken cookie
GuardAccessCookies ==
    { [NoCookies EXCEPT !.accessToken = t] :
        t \in issued.access \cup issued.refresh \cup issued.verification
              \cup {NoToken, Garbage, Forged} }

\* an access token presented in the legacy `token` cookie
GuardLegacyCookies ==
    { [NoCookies EXCEPT !.token = t] : t \in issued.access }

GuardRefreshCookies ==
    { [NoCookies EXCEPT !.refreshToken = t] :
        t \in issued.refresh \cup {NoToken, Garbage, Forged} }

GuardRegister(p) == RegisterArrive(p, "raw", "Cy", Mail("c"), GoodPassword)

GuardLogin(p) == LoginArrive(p, "raw", Mail("a"), GoodPassword)

GuardGetProfile(p) ==
    \E raw \in GuardAccessCookies \cup GuardLegacyCookies, fault \in BOOLEAN :
        GetProfileArrive(p, "raw", raw, fault)

GuardRefresh(p) ==
    \E raw \in GuardRefreshCookies, fault \in BOOLEAN :
        RefreshArriveWith(p, "raw", raw, fault)

\* the clock passes the lifetime of an access token, or of a refresh token
GuardAdvance == \E d \in {AccessTTL, RefreshTTL} : Tick(d)

NextGuard ==
    \/ \E p \in GuardProcs : GuardRegister(p)
    \/ \E p \in GuardProcs : RegisterSave1(p)
    \/ \E p \in GuardProcs : RegisterSave2(p)
    \/ \E p \in GuardProcs : GuardLogin(p)
    \/ \E p \in GuardProcs : LoginSave1(p)
    \/ \E p \in GuardProcs : LoginSave2(p)
    \/ \E p \in GuardProcs : GuardGetProfile(p)
    \/ \E p \in GuardProcs : GetProfileFind(p)
    \/ \E p \in GuardProcs : GuardRefresh(p)
    \/ \E p \in GuardProcs : RefreshSave(p)
    \/ GuardAdvance

SpecGuard == InitGuard /\ [][NextGuard]_vars

-----------------------------------------------------------------------------
(* Properties of the request authenticator                                 *)

\* the token protect reads from the cookies of a request
PresentedAccessToken(rq) ==
    IF rq.cookies.accessToken # NoToken THEN rq.cookies.accessToken ELSE rq.cookies.token

\* p takes the protect step of a request to GET /api/users/profile
ProtectStep(p) ==
    /\ pc[p] = "idle" /\ req'[p].op = "getProfile"
    /\ \E fault \in BOOLEAN : GetProfileArrive(p, "raw", req'[p].cookies, fault)

\* the request was turned away by protect: nothing attached, the handler not run
TurnedAway(p) ==
    /\ pc'[p] = "idle"
    /\ loc'[p].user = NoDoc
    /\ resp'[p].status = 401
    /\ resp'[p].user = NoDoc
    /\ users' = users

\* C11: a protected request whose access token is signed with the server's access
\* secret and has expired is rejected by protect with shouldRefresh true and
\* shouldLogout false; no identity is attached and the handler is not run.
C11_ExpiredSignalsRefresh ==
    [][ \A p \in GuardProcs :
          LET t == PresentedAccessToken(req'[p])
          IN  ( /\ ProtectStep(p)
                /\ t.key = env.JWT_SECRET
                /\ now >= t.exp )
              => ( /\ TurnedAway(p)
                   /\ resp'[p].shouldRefresh = "true"
                   /\ resp'[p].shouldLogout = "false" ) ]_vars

C11_Witness ==
    /\ req["p2"].op = "getProfile"
    /\ req["p2"].cookies.accessToken \in issued.access
    /\ now >= req["p2"].cookies.accessToken.exp
    /\ resp["p2"].status = 401 /\ resp["p2"].shouldRefresh = "true"

\* C12: a protected request whose access token is malformed or is not signed with
\* the server's access secret is rejected by protect with shouldLogout true and
\* shouldRefresh false; no identity is attached and the handler is not run.
C12_TamperedSignalsLogout ==
    [][ \A p \in GuardProcs :
          LET t == PresentedAccessToken(req'[p])
          IN  ( /\ ProtectStep(p)
                /\ t # NoToken
                /\ t.key # env.JWT_SECRET )
              => ( /\ TurnedAway(p)
                   /\ resp'[p].shouldLogout = "true"
                   /\ resp'[p].shouldRefresh = "false" ) ]_vars

\* a token signed with another key is rejected as invalid although its payload
\* has expired
C12_Witness ==
    /\ req["p2"].op = "getProfile"
    /\ req["p2"].cookies.accessToken.key \notin {env.JWT_SECRET, "absent", "garbage"}
    /\ now >= req["p2"].cookies.accessToken.exp
    /\ resp["p2"].status = 401 /\ resp["p2"].shouldLogout = "true"

\* C13: a token the system made for another purpose (a refresh token or an
\* email-verification token) presented in the accessToken cookie is rejected by
\* protect as invalid, and no identity is attached.
C13_OnlyAccessTokensAccepted ==
    [][ \A p \in GuardProcs :
          LET t == PresentedAccessToken(req'[p])
          IN  ( /\ ProtectStep(p)
                /\ t \in (issued.refresh \cup issued.verification) \ issued.access )
              => ( /\ TurnedAway(p)
                   /\ resp'[p].message = "Invalid access token" ) ]_vars

-----------------------------------------------------------------------------
(* Administration: one sender holding the cookies of its sessions, one     *)
(* request at a time, against every route that returns or removes users    *)

AdminProcs == {"p2"}

AdminStore == StoreOf(<<Root, Alice>>)

InitAdmin == InitWith({AdminStore})

\* the access tokens of the sender's sessions, or none
SessionCookies ==
    { [NoCookies EXCEPT !.accessToken = t] : t \in issued.access \cup {NoToken} }

SessionRefreshCookies ==
    { [NoCookies EXCEPT !.refreshToken = t] : t \in issued.refresh }

AdminRegister(p) == RegisterArrive(p, "raw", "Cy", Mail("c"), GoodPassword)

AdminLogin(p) ==
    \E email \in {Mail("r"), Mail("a")} : LoginArrive(p, "raw", email, GoodPassword)

AdminGetProfile(p) ==
    \E raw \in SessionCookies : GetProfileArrive(p, "raw", raw, FALSE)

AdminGetUsers(p) ==
    \E raw \in SessionCookies : GetUsersArrive(p, "raw", raw)

AdminGetUser(p) ==
    \E raw \in SessionCookies, id \in {2} : GetUserArrive(p, "raw", raw, id)

AdminDeleteUser(p) ==
    \E raw \in SessionCookies, id \in {1, 2} : DeleteUserArrive(p, "raw", raw, id)

AdminPutProfile(p) ==
    \E raw \in SessionCookies :
        PutProfileArrive(p, "raw", raw, Mail("A"), OtherPassword)

AdminPutUserInputs == { <<Mail("a"), "false">>, <<Mail("A"), "unset">> }

AdminPutUser(p) ==
    \E raw \in SessionCookies, in \in AdminPutUserInputs :
        PutUserArrive(p, "raw", raw, 2, "Al", in[1], "", in[2])

AdminRefresh(p) ==
    \E raw \in SessionRefreshCookies : RefreshArrive(p, "raw", raw)

NextAdmin ==
    \/ \E p \in AdminProcs : AdminRegister(p)
    \/ \E p \in AdminProcs : RegisterSave1(p)
    \/ \E p \in AdminProcs : RegisterSave2(p)
    \/ \E p \in AdminProcs : AdminLogin(p)
    \/ \E p \in AdminProcs : LoginSave1(p)
    \/ \E p \in AdminProcs : LoginSave2(p)
    \/ \E p \in AdminProcs : AdminGetProfile(p)
    \/ \E p \in AdminProcs : GetProfileFind(p)
    \/ \E p \in AdminProcs : AdminGetUsers(p)
    \/ \E p \in AdminProcs : GetUsersFind(p)
    \/ \E p \in AdminProcs : GetUsersCount(p)
    \/ \E p \in AdminProcs : AdminGetUser(p)
    \/ \E p \in AdminProcs : GetUserFind(p)
    \/ \E p \in AdminProcs : AdminDeleteUser(p)
    \/ \E p \in AdminProcs : DeleteUserFind(p)
    \/ \E p \in AdminProcs : DeleteUserRemove(p)
    \/ \E p \in AdminProcs : AdminPutProfile(p)
    \/ \E p \in AdminProcs : PutProfileFind(p)
    \/ \E p \in AdminProcs : PutProfileCheck(p)
    \/ \E p \in AdminProcs : PutProfileSave(p)
    \/ \E p \in AdminProcs : AdminPutUser(p)
    \/ \E p \in AdminProcs : PutUserFind(p)
    \/ \E p \in AdminProcs : PutUserCheck(p)
    \/ \E p \in AdminProcs : PutUserSave(p)
    \/ \E p \in AdminProcs : AdminRefresh(p)
    \/ \E p \in AdminProcs : RefreshSave(p)

SpecAdmin == InitAdmin /\ [][NextAdmin]_vars

-----------------------------------------------------------------------------
(* Properties of administration                                            *)

ProtectedOps ==
    {"getProfile", "getUsers", "getUser", "deleteUser", "putProfile", "putUser"}

\* p takes the first step (protect and what follows it) of a protected request
ProtectedArrival(p) ==
    LET rq == req'[p]
    IN  /\ pc[p] = "idle"
        /\ rq.op \in ProtectedOps
        /\ CASE rq.op = "getProfile" -> GetProfileArrive(p, "raw", rq.cookies, FALSE)
             [] rq.op = "getUsers" -> GetUsersArrive(p, "raw", rq.cookies)
             [] rq.op = "getUser" -> GetUserArrive(p, "raw", rq.cookies, rq.id)
             [] rq.op = "deleteUser" -> DeleteUserArrive(p, "raw", rq.cookies, rq.id)
             [] rq.op = "putProfile" ->
                    PutProfileArrive(p, "raw", rq.cookies, rq.body.email, rq.body.password)
             [] rq.op = "putUser" ->
                    PutUserArrive(p, "raw", rq.cookies, rq.id, rq.body.name,
                                  rq.body.email, rq.body.role, rq.body.isActive)

\* C14: once a user's record is removed, a protected request bearing an access
\* token issued for that user, validly signed and unexpired, is rejected by protect
\* with shouldLogout true and shouldRefresh false, with no identity attached and the
\* handler not run; and a RefreshSession with a refresh token issued for that user
\* is rejected and changes nothing.
C14_DeletedUserIsInvalid ==
    [][ \A p \in AdminProcs :
          /\ LET t == PresentedAccessToken(req'[p])
             IN  ( /\ ProtectedArrival(p)
                   /\ t \in issued.access
                   /\ now < t.exp
                   /\ t.id \notin Ids(users) )
                 => ( /\ TurnedAway(p)
                      /\ resp'[p].shouldLogout = "true"
                      /\ resp'[p].shouldRefresh = "false" )
          /\ LET t == req'[p].cookies.refreshToken
             IN  ( /\ pc[p] = "idle" /\ req'[p].op = "refresh"
                   /\ RefreshArrive(p, "raw", req'[p].cookies)
                   /\ t \in issued.refresh
                   /\ now < t.exp
                   /\ t.id \notin Ids(users) )
                 => ( /\ pc'[p] = "idle"
                      /\ resp'[p].status \in {401, 403}
                      /\ resp'[p].accessToken = NoToken
                      /\ resp'[p].setCookie \cap setTokenCookies(NoToken, t) = {}
                      /\ users' = users /\ issued' = issued ) ]_vars

\* Alice's record is gone and a request with her access token was just rejected
C14_Witness ==
    /\ 2 \notin Ids(users)
    /\ req["p2"].op \in ProtectedOps
    /\ req["p2"].cookies.accessToken \in issued.access
    /\ req["p2"].cookies.accessToken.id = 2
    /\ resp["p2"].status = 401 /\ resp["p2"].shouldLogout = "true"

-----------------------------------------------------------------------------
(* Logging out: one client, the seeded admin and one user; users log in,   *)
(* the admin removes accounts, the clock passes the refresh lifetime, and  *)
(* any refresh cookie may be presented to logout                           *)

LogoutProcs == {"p2"}

InitLogout == InitWith({AdminStore})

LogoutCookies ==
    { [NoCookies EXCEPT !.refreshToken = t] :
        t \in issued.refresh \cup {NoToken, Garbage, Forged} }

LogoutLogin(p) ==
    \E email \in {Mail("r"), Mail("a")} : LoginArrive(p, "raw", email, GoodPassword)

LogoutDeleteUser(p) ==
    \E raw \in SessionCookies, id \in {1, 2} : DeleteUserArrive(p, "raw", raw, id)

LogoutAny(p) ==
    \E raw \in LogoutCookies, fault \in BOOLEAN : LogoutWith(p, "raw", raw, fault)

\* the clock passes the lifetime of a refresh token
LogoutAdvance == Tick(RefreshTTL)

NextLogout ==
    \/ \E p \in LogoutProcs : LogoutLogin(p)
    \/ \E p \in LogoutProcs : LoginSave1(p)
    \/ \E p \in LogoutProcs : LoginSave2(p)
    \/ \E p \in LogoutProcs : LogoutDeleteUser(p)
    \/ \E p \in LogoutProcs : DeleteUserFind(p)
    \/ \E p \in LogoutProcs : DeleteUserRemove(p)
    \/ \E p \in LogoutProcs : LogoutAny(p)
    \/ LogoutAdvance

SpecLogout == InitLogout /\ [][NextLogout]_vars

\* p takes the step of a logout request
LogoutStep(p) ==
    /\ pc[p] = "idle"
    /\ req'[p].op = "logout"
    /\ \E fault \in BOOLEAN : LogoutWith(p, "raw", req'[p].cookies, fault)

\* C15: Logout never fails: whatever refresh cookie is presented (none, garbage,
\* forged, expired, valid, valid for a removed user) and whether or not the store
\* operation fails, the response is 200 and clears the accessToken, refreshToken
\* and token cookies.
C15_LogoutAlwaysSucceeds ==
    [][ \A p \in LogoutProcs :
          LogoutStep(p)
          => ( /\ pc'[p] = "idle"
               /\ resp'[p].status = 200
               /\ resp'[p].message = "Logout successful"
               /\ \A n \in CookieNames :
                    \E c \in resp'[p].setCookie : c.name = n /\ c.value = NoToken ) ]_vars

\* a logout with a live session's token was answered although the store operation
\* failed: the token is still stored
C15_Witness ==
    LET rt == req["p2"].cookies.refreshToken
    IN  /\ req["p2"].op = "logout"
        /\ pc["p2"] = "idle"
        /\ resp["p2"].status = 200
        /\ rt \in issued.refresh
        /\ now < rt.exp
        /\ rt.id \in Ids(users)
        /\ users[rt.id].refreshToken = rt

-----------------------------------------------------------------------------
(* Properties of refresh responses                                         *)

\* the last request of p was a RefreshSession presenting a token and it failed
RefreshFailedFor(p) ==
    /\ pc[p] = "idle"
    /\ req[p].op = "refresh"
    /\ req[p].cookies.refreshToken # NoToken
    /\ resp[p].status # 200

\* C16: every failed RefreshSession in which a refresh token was presented clears
\* the session cookies in its response, and a browser holds neither the accessToken
\* nor the refreshToken cookie afterwards.
C16_FailedRefreshClearsCookies ==
    \A p \in Procs :
        RefreshFailedFor(p)
        => ( /\ ClearSessionCookies \subseteq resp[p].setCookie
             /\ req[p].mode = "browser"
                => ( /\ jar["accessToken"].value = NoToken
                     /\ jar["refreshToken"].value = NoToken ) )

\* the last request of p was a RefreshSession and it has been answered
RefreshAnswered(p) ==
    /\ pc[p] = "idle"
    /\ req[p].op = "refresh"
    /\ resp[p].status # 0

\* C17: RefreshSession answers 401 exactly when no refresh token was presented and
\* 403 whenever the presented token is not accepted (invalid, expired or superseded);
\* both carry shouldLogout true; the only other outcome is 200 with an access token.
C17_RefreshStatusCodes ==
    \A p \in Procs :
        RefreshAnswered(p)
        => LET presented == req[p].cookies.refreshToken # NoToken
           IN  /\ resp[p].status \in {200, 401, 403}
               /\ resp[p].status = 401 <=> ~presented
               /\ (presented /\ resp[p].status # 200) => resp[p].status = 403
               /\ resp[p].status \in {401, 403} => resp[p].shouldLogout = "true"
               /\ resp[p].status = 200 => resp[p].accessToken # NoToken

-----------------------------------------------------------------------------
(* Properties of store failures                                            *)

\* a generic server error: no session signal, no cookie touched
GenericServerError(r) ==
    /\ r.status = 500
    /\ r.shouldRefresh = "unset" /\ r.shouldLogout = "unset"
    /\ r.setCookie = {}

\* protect consults the store for p's request and the store fails
ProtectStoreFailure(p) ==
    /\ pc[p] = "idle"
    /\ req'[p].op = "getProfile"
    /\ verifyAccessToken(env, PresentedAccessToken(req'[p]), now) = "ok"
    /\ GetProfileArrive(p, "raw", req'[p].cookies, TRUE)

\* RefreshSession consults the store for p's request and the store fails
RefreshStoreFailure(p) ==
    /\ pc[p] = "idle"
    /\ req'[p].op = "refresh"
    /\ JwtVerify(req'[p].cookies.refreshToken, env.REFRESH_TOKEN_SECRET, now) = "ok"
    /\ RefreshArriveWith(p, "raw", req'[p].cookies, TRUE)

\* C18: a store failure during protect or RefreshSession is answered with a generic
\* 500, never with a token failure: no shouldRefresh or shouldLogout signal and no
\* cookie cleared.
C18_StoreFailureIsServerError ==
    [][ \A p \in GuardProcs :
          (ProtectStoreFailure(p) \/ RefreshStoreFailure(p))
          => ( /\ pc'[p] = "idle"
               /\ GenericServerError(resp'[p]) ) ]_vars

-----------------------------------------------------------------------------
(* Properties of response bodies                                           *)

SecretPaths == {"password", "refreshToken"}

\* the user documents a response body carries
BodyDocuments(r) ==
    IF "users" \in DOMAIN r.user
    THEN {r.user.users[i] : i \in DOMAIN r.user.users}
    ELSE {r.user}

\* C19: no response body of Register, Login, RefreshSession, the profile read and
\* update or the admin list, read and update carries a credential hash or a stored
\* refresh token: no user document in a body has a password or refreshToken path,
\* and the accessToken field is never a stored refresh token.
C19_NoSecretsInBodies ==
    \A p \in AdminProcs :
        /\ \A d \in BodyDocuments(resp[p]) : DOMAIN d \cap SecretPaths = {}
        /\ \A i \in Ids(users) :
              resp[p].accessToken = NoToken
              \/ resp[p].accessToken # users[i].refreshToken

\* the admin list was answered with every document while refresh tokens are stored
C19_Witness ==
    /\ req["p2"].op = "getUsers"
    /\ resp["p2"].status = 200
    /\ Cardinality(BodyDocuments(resp["p2"])) >= 2
    /\ \E i \in Ids(users) : users[i].refreshToken # NoToken

-----------------------------------------------------------------------------
(* Properties of the role gate                                             *)

AdminOps == {"getUsers", "getUser", "deleteUser", "putUser"}

\* p's request reaches the role gate: protect attached an identity
ReachesAdminGate(p) ==
    /\ ProtectedArrival(p)
    /\ req'[p].op \in AdminOps
    /\ Protect(env, users, req'[p].cookies, now) = NoResponse

\* C20: the role gate passes a request exactly when an identity is attached and its
\* role is admin; any other request, one without an identity included, is answered
\* 403 and the route handler is not run.
C20_AdminGate ==
    [][ /\ ~AdminPasses(NoDoc)
        /\ \A p \in AdminProcs :
             ReachesAdminGate(p)
             => LET u == AttachedUser(users, req'[p].cookies)
                IN  IF u.doc.role = "admin"
                    THEN /\ AdminPasses(u)
                         /\ resp'[p] # AdminForbidden
                         /\ pc'[p] # "idle" \/ resp'[p] = ValidationFailed
                    ELSE /\ ~AdminPasses(u)
                         /\ pc'[p] = "idle"
                         /\ resp'[p].status = 403
                         /\ resp'[p].message = "Not authorized as an admin"
                         /\ users' = users ]_vars

\* a signed-in user who is not an admin was turned away by the gate
C20_Witness ==
    /\ req["p2"].op \in AdminOps
    /\ pc["p2"] = "idle"
    /\ resp["p2"] = AdminForbidden
    /\ req["p2"].cookies.accessToken \in issued.access
    /\ req["p2"].cookies.accessToken.id \in Ids(users)
    /\ users[req["p2"].cookies.accessToken.id].role = "user"

-----------------------------------------------------------------------------
(* routes/products.js: POST /, PUT /:id, DELETE /:id                       *)

\* the validators: only the name is modelled, the other fields are taken as valid
ProductValid(b) == Len(b.name) > 0

ProductInvalid ==
    Response("validation", 400, "errors", NoDoc, NoToken, NoFlags, {})

ProductNotFound ==
    Response("notfound", 404, "Product not found", NoDoc, NoToken, NoFlags, {})

ProductNotAuthorized ==
    Response("notadmin", 401, "Not authorized", NoDoc, NoToken, NoFlags, {})

ProductOk == Response("ok", 200, "", NoDoc, NoToken, NoFlags, {})

ProductRemoved == Response("ok", 200, "Product removed", NoDoc, NoToken, NoFlags, {})

\* Product.findById(id): is there such a document
ProductExists(store, id) == id \in 1..Len(store) /\ ~store[id].removed

\* POST /: protect and the validators, no role gate in the chain
PostProductArrive(p, mode, raw, name) ==
    LET b  == [NoBody EXCEPT !.name = name]
        rq == Request("postProduct", mode, b, 0, CookiesOf(mode, "postProduct", raw))
        rejected == Protect(env, users, rq.cookies, now)
    IN  /\ pc[p] = "idle"
        /\ IF rejected # NoResponse THEN Send(p, rq, rejected)
           ELSE IF ~ProductValid(b) THEN Send(p, rq, ProductInvalid)
           ELSE /\ Len(products) < MaxProducts
                /\ Suspend(p, rq, "postProduct_save",
                           [NoLoc EXCEPT !.user = AttachedUser(users, rq.cookies)])
        /\ UNCHANGED <<products, orders>>
        /\ StoreUnchanged /\ NoIssue /\ ClockUnchanged

\* new Product({...req.body, user: req.user.id}).save()
PostProductSave(p) ==
    /\ pc[p] = "postProduct_save"
    /\ products' = Append(products, [ name |-> req[p].body.name,
                                       user |-> loc[p].user.id,
                                       removed |-> FALSE ])
    /\ Send(p, req[p], ProductOk)
    /\ UNCHANGED orders
    /\ StoreUnchanged /\ NoIssue /\ ClockUnchanged

\* PUT /:id: protect and the validators
PutProductArrive(p, mode, raw, id, name) ==
    LET b  == [NoBody EXCEPT !.name = name]
        rq == Request("putProduct", mode, b, id, CookiesOf(mode, "putProduct", raw))
        rejected == Protect(env, users, rq.cookies, now)
    IN  /\ pc[p] = "idle"
        /\ IF rejected # NoResponse THEN Send(p, rq, rejected)
           ELSE IF ~ProductValid(b) THEN Send(p, rq, ProductInvalid)
           ELSE Suspend(p, rq, "putProduct_find",
                        [NoLoc EXCEPT !.user = AttachedUser(users, rq.cookies)])
        /\ UNCHANGED <<products, orders>>
        /\ StoreUnchanged /\ NoIssue /\ ClockUnchanged

\* Product.findById and the handler's own role check
PutProductFind(p) ==
    /\ pc[p] = "putProduct_find"
    /\ IF ~ProductExists(products, req[p].id) THEN Send(p, req[p], ProductNotFound)
       ELSE IF loc[p].user.doc.role # "admin" THEN Send(p, req[p], ProductNotAuthorized)
       ELSE Suspend(p, req[p], "putProduct_update", loc[p])
    /\ UNCHANGED <<products, orders>>
    /\ StoreUnchanged /\ NoIssue /\ ClockUnchanged

\* Product.findByIdAndUpdate(id, { $set: req.body }, { new: true })
PutProductUpdate(p) ==
    LET id == req[p].id
    IN  /\ pc[p] = "putProduct_update"
        /\ products' = IF ProductExists(products, id)
                       THEN [products EXCEPT ![id].name = req[p].body.name]
                       ELSE products
        /\ Send(p, req[p], ProductOk)
        /\ UNCHANGED orders
        /\ StoreUnchanged /\ NoIssue /\ ClockUnchanged

\* DELETE /:id: protect, admin
DeleteProductArrive(p, mode, raw, id) ==
    LET rq == Request("deleteProduct", mode, NoBody, id,
                      CookiesOf(mode, "deleteProduct", raw))
        rejected == Protect(env, users, rq.cookies, now)
    IN  /\ pc[p] = "idle"
        /\ IF rejected # NoResponse THEN Send(p, rq, rejected)
           ELSE IF ~AdminPasses(AttachedUser(users, rq.cookies))
                THEN Send(p, rq, AdminForbidden)
           ELSE Suspend(p, rq, "deleteProduct_find",
                        [NoLoc EXCEPT !.user = AttachedUser(users, rq.cookies)])
        /\ UNCHANGED <<products, orders>>
        /\ StoreUnchanged /\ NoIssue /\ ClockUnchanged

\* Product.findById and the handler's own role check
DeleteProductFind(p) ==
    /\ pc[p] = "deleteProduct_find"
    /\ IF ~ProductExists(products, req[p].id) THEN Send(p, req[p], ProductNotFound)
       ELSE IF loc[p].user.doc.role # "admin" THEN Send(p, req[p], ProductNotAuthorized)
       ELSE Suspend(p, req[p], "deleteProduct_remove", loc[p])
    /\ UNCHANGED <<products, orders>>
    /\ StoreUnchanged /\ NoIssue /\ ClockUnchanged

\* product.remove()
DeleteProductRemove(p) ==
    LET id == req[p].id
    IN  /\ pc[p] = "deleteProduct_remove"
        /\ products' = [products EXCEPT ![id].removed = TRUE]
        /\ Send(p, req[p], ProductRemoved)
        /\ UNCHANGED orders
        /\ StoreUnchanged /\ NoIssue /\ ClockUnchanged

-----------------------------------------------------------------------------
(* The catalogue: one client, the seeded admin and one user; both sign in  *)
(* and send product requests with the cookies of their sessions            *)

CatalogProcs == {"p2"}

InitCatalog == InitWith({AdminStore})

ProductNames == {"", "Tea", "Mug"}

CatalogLogin(p) ==
    \E email \in {Mail("r"), Mail("a")} : LoginArrive(p, "raw", email, GoodPassword)

CatalogPostProduct(p) ==
    \E raw \in SessionCookies, name \in ProductNames :
        PostProductArrive(p, "raw", raw, name)

CatalogPutProduct(p) ==
    \E raw \in SessionCookies, id \in 1..MaxProducts, name \in ProductNames :
        PutProductArrive(p, "raw", raw, id, name)

CatalogDeleteProduct(p) ==
    \E raw \in SessionCookies, id \in 1..MaxProducts :
        DeleteProductArrive(p, "raw", raw, id)

NextCatalog ==
    \/ \E p \in CatalogProcs : CatalogLogin(p)
    \/ \E p \in CatalogProcs : LoginSave1(p)
    \/ \E p \in CatalogProcs : LoginSave2(p)
    \/ \E p \in CatalogProcs : CatalogPostProduct(p)
    \/ \E p \in CatalogProcs : PostProductSave(p)
    \/ \E p \in CatalogProcs : CatalogPutProduct(p)
    \/ \E p \in CatalogProcs : PutProductFind(p)
    \/ \E p \in CatalogProcs : PutProductUpdate(p)
    \/ \E p \in CatalogProcs : CatalogDeleteProduct(p)
    \/ \E p \in CatalogProcs : DeleteProductFind(p)
    \/ \E p \in CatalogProcs : DeleteProductRemove(p)

SpecCatalog == InitCatalog /\ [][NextCatalog]_vars

-----------------------------------------------------------------------------
(* Properties of the catalogue                                             *)

\* the awaits after which a product handler writes to the collection
ProductWrites == {"postProduct_save", "putProduct_update", "deleteProduct_remove"}

\* C21: the products collection changes only by a product handler run for an
\* authenticated user whose role is admin: POST /api/products, PUT and DELETE
\* /api/products/:id never create, modify or remove a product for a user whose
\* role is user.
C21_ProductWritesAreAdminOnly ==
    [][ products' # products
        => \E p \in CatalogProcs :
              /\ pc[p] \in ProductWrites
              /\ pc'[p] = "idle"
              /\ loc[p].user.doc.role = "admin" ]_vars

-----------------------------------------------------------------------------
(* Properties of deactivated accounts                                      *)

\* p starts a Login with the email of an existing, deactivated account
LoginOfDeactivated(p) ==
    LET email == req'[p].body.email
        found == FindByEmail(users, email)
    IN  /\ pc[p] = "idle" /\ req'[p].op = "login"
        /\ IsEmail(email)
        /\ found # {}
        /\ \A i \in found : ~users[i].isActive
        /\ LoginArrive(p, "raw", email, req'[p].body.password)

\* p sends GET /api/users/profile with an unexpired access token that was issued
\* to an account which is deactivated now
ProfileOfDeactivated(p) ==
    LET t == PresentedAccessToken(req'[p])
    IN  /\ pc[p] = "idle" /\ req'[p].op = "getProfile"
        /\ GetProfileArrive(p, "raw", req'[p].cookies, FALSE)
        /\ t \in issued.access
        /\ now < t.exp
        /\ t.id \in Ids(users)
        /\ ~users[t.id].isActive

\* C22: once an account's isActive is false, every Login started for it fails and
\* issues nothing, while a protected request bearing an unexpired access token
\* issued to it earlier is still authenticated: protect attaches the identity and
\* the handler runs.
C22_DeactivationSparesAccessTokens ==
    [][ \A p \in AdminProcs :
          /\ LoginOfDeactivated(p)
             => ( /\ pc'[p] = "idle"
                  /\ resp'[p].status \in {401, 403}
                  /\ resp'[p].accessToken = NoToken
                  /\ issued' = issued /\ users' = users )
          /\ ProfileOfDeactivated(p)
             => ( /\ pc'[p] = "getProfile_find"
                  /\ loc'[p].user.id = PresentedAccessToken(req'[p]).id
                  /\ ~loc'[p].user.doc.isActive ) ]_vars

\* the profile of a deactivated account was served to its old access token
C22_Witness ==
    /\ req["p2"].op = "getProfile"
    /\ pc["p2"] = "idle"
    /\ resp["p2"].status = 200
    /\ req["p2"].cookies.accessToken \in issued.access
    /\ req["p2"].cookies.accessToken.id \in Ids(users)
    /\ ~users[req["p2"].cookies.accessToken.id].isActive

-----------------------------------------------------------------------------
(* Startup: the environment may lack either token secret; one client then  *)
(* registers, logs in, refreshes and reads its profile                     *)

BootEnvs ==
    { [JWT_SECRET |-> a, REFRESH_TOKEN_SECRET |-> r] :
        a \in {"", Configured.JWT_SECRET}, r \in {"", Configured.REFRESH_TOKEN_SECRET} }

InitBoot ==
    /\ \E e \in BootEnvs : Started(e, {GuardStore})
    /\ products = <<>>
    /\ orders = <<>>

BootGetProfile(p) ==
    \E raw \in GuardAccessCookies : GetProfileArrive(p, "raw", raw, FALSE)

BootRefresh(p) ==
    \E raw \in GuardRefreshCookies : RefreshArrive(p, "raw", raw)

NextBoot ==
    \/ \E p \in GuardProcs : GuardRegister(p)
    \/ \E p \in GuardProcs : RegisterSave1(p)
    \/ \E p \in GuardProcs : RegisterSave2(p)
    \/ \E p \in GuardProcs : GuardLogin(p)
    \/ \E p \in GuardProcs : LoginSave1(p)
    \/ \E p \in GuardProcs : LoginSave2(p)
    \/ \E p \in GuardProcs : BootGetProfile(p)
    \/ \E p \in GuardProcs : GetProfileFind(p)
    \/ \E p \in GuardProcs : BootRefresh(p)
    \/ \E p \in GuardProcs : RefreshSave(p)

SpecBoot == InitBoot /\ [][NextBoot]_vars

\* C23: while the access secret or the refresh secret is missing the server is
\* not serving: no request is taken up or answered and no user record is written.
C23_MissingSecretIsFatal ==
    [][ ~SecretsConfigured(env)
        => ( /\ users' = users
             /\ \A p \in Procs : pc'[p] = "exited" /\ resp'[p] = NoResponse ) ]_vars

-----------------------------------------------------------------------------
(* Properties of issued tokens                                             *)

\* p's Login or RefreshSession succeeds in this step
IssuesTokens(p) ==
    /\ pc[p] \in {"login_save2", "refresh_save"}
    /\ pc'[p] = "idle"
    /\ resp'[p].status = 200

\* C24: the refresh token a successful Login or RefreshSession hands out differs
\* from every refresh token handed out before, also within one clock second; so a
\* successful RefreshSession never replaces the presented token by an equal one.
C24_RefreshTokensAreFresh ==
    [][ \A p \in Procs :
          IssuesTokens(p)
          => ( /\ RefreshCookieOf(resp'[p]) # NoToken
               /\ RefreshCookieOf(resp'[p]) \notin issued.refresh
               /\ req[p].op = "refresh"
                  => RefreshCookieOf(resp'[p]) # req[p].cookies.refreshToken ) ]_vars

-----------------------------------------------------------------------------
(* Properties of the store                                                 *)

\* jwt.verify accepts the refresh token rt now
Decodable(rt) ==
    rt # NoToken /\ JwtVerify(rt, env.REFRESH_TOKEN_SECRET, now) = "ok"

RejectedSessionRequest(p) ==
    /\ req'[p].op \in {"login", "refresh"}
    /\ pc[p] \in {"idle", "login_save1", "login_save2", "refresh_save"}
    /\ pc'[p] = "idle"
    /\ resp'[p] # resp[p] \/ req'[p] # req[p]
    /\ resp'[p].status \in {400, 401, 403}

\* a Login of user i has written lastLogin and is about to issue its tokens
LoginUnderWay(i) == \E p \in Procs : pc[p] = "login_save2" /\ loc[p].uid = i

\* C26: a Login or RefreshSession that is turned down (validation error, unknown
\* email, wrong password, deactivated account; no token, verification failure, token
\* not the stored one) leaves every user record as it is; and lastLogin is set only
\* by a successful Login: a record with a lastLogin has had tokens issued to it,
\* unless its Login is still under way.
C26_FailuresWriteNothing ==
    /\ [][ \A p \in Procs : RejectedSessionRequest(p) => users' = users ]_vars
    /\ [](\A i \in Ids(users) :
             users[i].lastLogin # NoDate
             => \/ \E t \in issued.refresh : t.id = i
                \/ LoginUnderWay(i))

\* p's Register is answered with a failure in this step
RegisterFails(p) ==
    /\ req'[p].op = "register"
    /\ pc[p] \in {"idle", "register_save1", "register_save2"}
    /\ pc'[p] = "idle"
    /\ pc[p] # "idle" \/ req'[p] # req[p] \/ resp'[p] # resp[p]
    /\ resp'[p].status >= 400

\* C27: Register is all-or-nothing: when a Register is answered with a failure
\* (validation error, duplicate email, a fault while issuing the tokens or saving
\* the refresh token), the store holds no record created by that request.
C27_RegisterAllOrNothing ==
    [][ \A p \in Procs :
          RegisterFails(p)
          => IF pc[p] = "register_save2"
             THEN loc[p].uid \notin Ids(users')
             ELSE users' = users ]_vars

\* C28: while a user's isActive is false no operation hands out a new access token
\* for that user: neither a Login nor a RefreshSession presenting the stored
\* refresh token succeeds.
C28_NoTokensWhileDeactivated ==
    [][ \A p \in AdminProcs :
          IssuesTokens(p)
          => LET id == resp'[p].accessToken.id
             IN  id \in Ids(users) /\ users[id].isActive ]_vars

\* C29: every stored password is the hash, applied once, of the plaintext chosen
\* for the account, so comparePassword accepts that plaintext: for records made by
\* Register, for passwords changed by the profile update, and for the default admin
\* seeded at startup.
C29_HashedExactlyOnce ==
    \A i \in Ids(users) :
        /\ users[i].password = BcryptHash(Plain(users[i].password.plain))
        /\ comparePassword(users[i], Plain(users[i].password.plain))

-----------------------------------------------------------------------------
(* routes/orders.js: PUT /:id/deliver and DELETE /:id. The orders are      *)
(* records [isPaid, isDelivered, deliveredAt, removed] numbered from 1; an  *)
(* :id that is a positive number is a well-formed ObjectId                 *)

\* an :id that Mongoose cannot cast to an ObjectId
BadObjectId == -1

\* does findById(id) cast the id, or throw a CastError of kind ObjectId
IsObjectId(id) == id >= 1

Order(isPaid) ==
    [isPaid |-> isPaid, isDelivered |-> FALSE, deliveredAt |-> NoDate, removed |-> FALSE]

\* Order.findById(id): is there such a document
OrderExists(store, id) == id \in 1..Len(store) /\ ~store[id].removed

OrderNotFound ==
    Response("notfound", 404, "Order not found", NoDoc, NoToken, NoFlags, {})

OrderNotPaid ==
    Response("notpaid", 400, "Order has not been paid yet", NoDoc, NoToken, NoFlags, {})

OrderOk == Response("ok", 200, "", NoDoc, NoToken, NoFlags, {})

OrderRemoved == Response("ok", 200, "Order removed", NoDoc, NoToken, NoFlags, {})

\* the middleware chain of both routes: protect, admin
OrderArrive(p, op, mode, raw, id, label) ==
    LET rq == Request(op, mode, NoBody, id, CookiesOf(mode, op, raw))
        rejected == Protect(env, users, rq.cookies, now)
    IN  /\ pc[p] = "idle"
        /\ IF rejected # NoResponse THEN Send(p, rq, rejected)
           ELSE IF ~AdminPasses(AttachedUser(users, rq.cookies))
                THEN Send(p, rq, AdminForbidden)
           ELSE Suspend(p, rq, label,
                        [NoLoc EXCEPT !.user = AttachedUser(users, rq.cookies)])
        /\ UNCHANGED <<products, orders>>
        /\ StoreUnchanged /\ NoIssue /\ ClockUnchanged

\* PUT /:id/deliver up to the save: the response the handler returns early, if any;
\* its catch answers every error, the CastError included, with 500
DeliverOrderChecks(store, id) ==
    IF ~IsObjectId(id) THEN UsersServerError("cast")
    ELSE IF ~OrderExists(store, id) THEN OrderNotFound
    ELSE IF ~store[id].isPaid THEN OrderNotPaid
    ELSE NoResponse

DeliverOrderArrive(p, mode, raw, id) ==
    OrderArrive(p, "deliverOrder", mode, raw, id, "deliverOrder_find")

DeliverOrderFind(p) ==
    LET early == DeliverOrderChecks(orders, req[p].id)
    IN  /\ pc[p] = "deliverOrder_find"
        /\ IF early # NoResponse THEN Send(p, req[p], early)
           ELSE Suspend(p, req[p], "deliverOrder_save", loc[p])
        /\ UNCHANGED <<products, orders>>
        /\ StoreUnchanged /\ NoIssue /\ ClockUnchanged

\* order.isDelivered = true; order.deliveredAt = Date.now(); order.save(): the
\* save of a document removed in the meantime throws
DeliverOrderSave(p) ==
    LET id == req[p].id
    IN  /\ pc[p] = "deliverOrder_save"
        /\ IF ~OrderExists(orders, id)
           THEN /\ Send(p, req[p], UsersServerError("save"))
                /\ UNCHANGED orders
           ELSE /\ orders' = [orders EXCEPT ![id].isDelivered = TRUE,
                                            ![id].deliveredAt = now]
                /\ Send(p, req[p], OrderOk)
        /\ UNCHANGED products
        /\ StoreUnchanged /\ NoIssue /\ ClockUnchanged

DeleteOrderArrive(p, mode, raw, id) ==
    OrderArrive(p, "deleteOrder", mode, raw, id, "deleteOrder_find")

\* DELETE /:id: its catch answers a CastError with 404
DeleteOrderFind(p) ==
    /\ pc[p] = "deleteOrder_find"
    /\ IF ~IsObjectId(req[p].id) \/ ~OrderExists(orders, req[p].id)
       THEN Send(p, req[p], OrderNotFound)
       ELSE Suspend(p, req[p], "deleteOrder_remove", loc[p])
    /\ UNCHANGED <<products, orders>>
    /\ StoreUnchanged /\ NoIssue /\ ClockUnchanged

\* order.remove()
DeleteOrderRemove(p) ==
    LET id == req[p].id
    IN  /\ pc[p] = "deleteOrder_remove"
        /\ orders' = [orders EXCEPT ![id].removed = TRUE]
        /\ Send(p, req[p], OrderRemoved)
        /\ UNCHANGED products
        /\ StoreUnchanged /\ NoIssue /\ ClockUnchanged

-----------------------------------------------------------------------------
(* The orders: two clients, an admin and a user who sign in, and a         *)
(* database that holds a paid and an unpaid order                          *)

OrdersProcs == {"p1", "p2"}

SeedOrders == <<Order(TRUE), Order(FALSE)>>

InitOrders == InitUsers({AdminStore}) /\ products = <<>> /\ orders = SeedOrders

\* the ids the clients ask for: both orders, an id of no order, a malformed id
OrderIdInputs == {BadObjectId} \cup (1..(Len(SeedOrders) + 1))

OrdersLogin(p) ==
    \E email \in {Mail("r"), Mail("a")} : LoginArrive(p, "raw", email, GoodPassword)

OrdersDeliver(p) ==
    \E raw \in SessionCookies, id \in OrderIdInputs :
        DeliverOrderArrive(p, "raw", raw, id)

OrdersDelete(p) ==
    \E raw \in SessionCookies, id \in OrderIdInputs :
        DeleteOrderArrive(p, "raw", raw, id)

NextOrders ==
    \/ \E p \in {"p2"} : OrdersLogin(p)
    \/ \E p \in {"p2"} : LoginSave1(p)
    \/ \E p \in {"p2"} : LoginSave2(p)
    \/ \E p \in OrdersProcs : OrdersDeliver(p)
    \/ \E p \in OrdersProcs : DeliverOrderFind(p)
    \/ \E p \in OrdersProcs : DeliverOrderSave(p)
    \/ \E p \in OrdersProcs : OrdersDelete(p)
    \/ \E p \in OrdersProcs : DeleteOrderFind(p)
    \/ \E p \in OrdersProcs : DeleteOrderRemove(p)

SpecOrders == InitOrders /\ [][NextOrders]_vars

-----------------------------------------------------------------------------
(* Properties of the orders                                                *)

\* client p's deliver request is past protect and admin and its handler acts
DeliverHandled(p) == pc[p] = "deliverOrder_find" /\ pc'[p] # pc[p]

\* C30: an order is marked delivered only while it is paid; a deliver request for
\* an unpaid order is answered 400 and leaves the orders unchanged; a deliver
\* request whose id names no order is answered 404.
C30_DeliverRequiresPaid ==
    [][ /\ \A i \in 1..Len(orders) :
              (orders'[i].isDelivered /\ ~orders[i].isDelivered)
                  => (orders[i].isPaid /\ orders'[i].isPaid)
        /\ \A p \in OrdersProcs :
              DeliverHandled(p)
                  => /\ (OrderExists(orders, req[p].id) /\ ~orders[req[p].id].isPaid)
                         => (resp'[p].status = 400 /\ orders' = orders)
                     /\ ~OrderExists(orders, req[p].id)
                         => resp'[p].status = 404 ]_vars

====
